---- MODULE Spec2Model ----
(***************************************************************************)
(* zenwave: the middleware core of the HTTP client.                        *)
(*   Cache           src/src/cache.rs                                      *)
(*   FollowRedirect  src/src/redirect.rs                                   *)
(*   Retry           src/src/retry.rs                                      *)
(*   OAuth2ClientCredentials  src/src/oauth2.rs                            *)
(*   Timeout         src/src/timeout.rs                                    *)
(*   downloads       src/src/client/download.rs                            *)
(* Each middleware is modelled with its own variables and its own          *)
(* specification (SpecCache, SpecRedirect, SpecRetry, SpecOAuth,           *)
(* SpecTimeout, SpecDownload); SpecChains has two Retry chains on one      *)
(* executor and SpecOAuthCancel callers whose futures are dropped.  The    *)
(* inner endpoint is the environment and answers nondeterministically.     *)
(* Time is counted in whole seconds.                                       *)
(***************************************************************************)
EXTENDS Integers, Sequences, FiniteSets, TLC

(* Option<T> *)
None == [some |-> FALSE]
Some(x) == [some |-> TRUE, v |-> x]

(* Result<Response, Error>; the error kind is kept *)
Ok(r) == [ok |-> TRUE, resp |-> r]
Err(kind) == [ok |-> FALSE, err |-> kind]

Min(a, b) == IF a <= b THEN a ELSE b

(* a request body that was taken before the call *)
Consumed == "<consumed>"

(***************************************************************************)
(* Bounds of the model                                                     *)
(***************************************************************************)
MaxTime == 2
MaxAgeBound == 2
(* the largest max_retries a Retry is built with *)
MaxRetries == 34
(* the seconds that pass while the callers of the token slot run *)
MaxOAuthTime == 1
(* the callers that share one token slot *)
NumCallers == 2
(* the largest expires_in a token endpoint answers with *)
MaxExpiresIn == 1
(* the most requests the token endpoint is sent *)
MaxHits == 2
(* the largest duration a Timeout is built with, and the time that passes
   while its calls run *)
MaxDuration == 2
MaxTimeoutTime == 3
(* the polls of one call that find neither future ready *)
MaxPolls == 2
(* the length of the longest payload a server holds, and of the longest
   chunk of a response body *)
MaxPayload == 3
MaxChunk == 2
(* max_retries of the two Retry chains that run side by side *)
MaxChainRetries == 2

(***************************************************************************)
(*                               Cache                                     *)
(***************************************************************************)
(* entries:     Cache.entries, the table of stored responses
   clock:       the time, read by Instant::now() and SystemTime::now()
   cache_in:    the request the caller hands to Cache::handle
   inner_req:   the request the inner endpoint was given in that call
   revalidated: whether that call held a pending entry (cached_entry)
   cache_out:   the result the call returned: status, body and Age header
   answered:    the answer the inner endpoint gave in that call
   no_store_last: per URI, whether the latest response of the inner endpoint
                to a GET carried Cache-Control: no-store
   answered_public: whether that answer was a response marked public
   answered_meta: the Cache-Control directives and the Expires header of
                that answer, when it was a response *)
VARIABLES entries, clock, cache_in, inner_req, revalidated, cache_out,
          answered, no_store_last, answered_public, answered_meta

cacheVars == <<entries, clock, cache_in, inner_req, revalidated, cache_out,
               answered, no_store_last, answered_public, answered_meta>>

(* red_pc:          where FollowRedirect::respond stands: "idle" before the
                    call, "loop" at the head of the loop, "done" after it
   red_orig:        the request the caller passed in
   current_method, current_url, current_headers, redirect_count,
   auth_stripped:   the locals of respond
   red_req:         the request the inner endpoint was given on the last hop
   red_status:      the status of the inner endpoint's last response
   red_result:      what respond returned
   left_origin:     whether a request of this call went to a host other than
                    the original one
   red_sent:        the requests this call gave the inner endpoint
   red_cause:       what ended the call: "" while it runs, "response" for a
                    response that is no redirect, or the failure mode
   red_location:    the Location header of the redirect followed last *)
VARIABLES red_pc, red_orig, current_method, current_url, current_headers,
          redirect_count, auth_stripped, red_req, red_status, red_result,
          left_origin, red_sent, red_cause, red_location

redirectVars == <<red_pc, red_orig, current_method, current_url,
                  current_headers, redirect_count, auth_stripped, red_req,
                  red_status, red_result, left_origin, red_sent, red_cause,
                  red_location>>

(* retry_pc:      where Retry::respond stands: "idle" before the call,
                  "loop" at the head of the loop, "sleep" in Timer::after,
                  "done" after the return, "panicked" after a panic
   max_retries, min_delay, max_delay: the fields of Retry (milliseconds)
   attempts:      the local of respond
   snapshot:      the RequestSnapshot of the call
   retry_orig:    the request as the caller passed it in
   retry_request: the caller's request object, which respond overwrites and
                  the inner endpoint may consume or change
   retry_req:     the request the inner endpoint was given on the last attempt
   retry_last:    the inner endpoint's last answer
   retry_result:  what respond returned
   issued, failed, sleeps: how many requests the inner endpoint was given,
                  how many of them it failed, and how many sleeps were begun
   delay:         the length of the last sleep
   overflow_checks: whether the build checks integer overflow (the default
                  of debug builds) or wraps (the default of release builds) *)
VARIABLES retry_pc, max_retries, min_delay, max_delay, attempts, snapshot,
          retry_orig, retry_request, retry_req, retry_last, retry_result,
          issued, failed, sleeps, delay, overflow_checks

retryVars == <<retry_pc, max_retries, min_delay, max_delay, attempts,
               snapshot, retry_orig, retry_request, retry_req, retry_last,
               retry_result, issued, failed, sleeps, delay,
               overflow_checks>>

(* token:       OAuth2ClientCredentials.token, the slot all clones share:
                the access token (named by the number of the fetch that
                brought it) and expires_at, with the time of the fetch and
                the expires_in of the answer kept beside them
   lock:        the caller that holds the mutex of the slot, 0 when free
   oauth_clock: the time, read by Instant::now()
   hits:        the requests the token endpoint was sent
   completed:   the requests the token endpoint has answered
   good:        the fetches that stored a token valid for a positive time
   o_pc:        where each caller stands in handle and ensure_token: "idle",
                "lock1" and "lock2" before the first and second
                lock().await, "fetch" in fetch_token().await, "done"
   o_now:       each caller's local `now`, 0 outside ensure_token
   o_start:     what each caller found when it read `now`: whether the slot
                held no valid token, and the values of completed and good;
                when the call ends with a token good is forgotten, when it
                ends with an error all of it
   attached:    the token each caller put into its Authorization header,
                0 for none
   o_result:    how each caller's handle ended
   o_status:    the status each caller's upstream error carries, 0 when
                its handle ended otherwise
   o_in:        the Authorization header of the request each caller passed
   o_request:   each caller's request as handle leaves it, and how often it
                was given to the inner endpoint *)
VARIABLES token, lock, oauth_clock, hits, completed, good, o_pc, o_now,
          o_start, attached, o_result, o_status, o_in, o_request

oauthVars == <<token, lock, oauth_clock, hits, completed, good, o_pc, o_now,
               o_start, attached, o_result, o_status, o_in, o_request>>

(* tm_pc:       where Timeout::handle stands: "idle" before the call,
                "pending" in select(..).await, "done" after the return
   duration:    Timeout.duration
   tm_clock:    the time, read by the timer
   timer_when:  the deadline of timeout_future
   response_future: the state of the inner call: "none" before the call,
                "pending", "ready" (its next poll completes it), "returned"
                (select took its result) or "dropped" (unfinished)
   inner_answer: what the inner endpoint answers
   inner_polls: how often response_future was polled in this call
   idle_polls:  how many polls of this call found neither future ready
   tm_first:    which came first in this call, the completion of the inner
                endpoint's work ("inner") or the deadline ("timer")
   tm_result:   what handle returned
   tm_status:   the status that result maps to when it is an error: by its
                own status() and after conversion into the unified Error *)
VARIABLES tm_pc, duration, tm_clock, timer_when, response_future, inner_answer,
          inner_polls, idle_polls, tm_first, tm_result, tm_status

timeoutVars == <<tm_pc, duration, tm_clock, timer_when, response_future, inner_answer,
                 inner_polls, idle_polls, tm_first, tm_result, tm_status>>

(* dl_pc:        where download_to_path stands: "idle" (nothing chosen
                 yet), "ready" (about to be called), "streaming" (in the
                 loop over the body), "done"
   checks_status: whether the call is the download_to_path of
                 client/download.rs, which refuses a status that is neither
                 a success nor 206, or the download_to_path_with of
                 client.rs, which does not look
   payload:      the bytes the server holds
   server:       how the server answers: "range" honours a Range header,
                 "plain" ignores it, "gone" answers 404
   resume_existing: DownloadOptions.resume_existing
   file:         the bytes of the destination file
   file_before:  the bytes it held when the call began
   dl_range:     the start of the Range header of the request, if it has one
   dl_status:    the status of the response
   dl_body:      the bytes of the response body not yet read
   dl_pos:       the position of the file cursor
   resumed_from, bytes_written: the locals of the call, the fields of its
                 report
   dl_result:    how the call ended: "ok" or the kind of its error *)
VARIABLES dl_pc, checks_status, payload, server, resume_existing, file,
          file_before, dl_range, dl_status, dl_body, dl_pos, resumed_from,
          bytes_written, dl_result

downloadVars == <<dl_pc, checks_status, payload, server, resume_existing,
                  file, file_before, dl_range, dl_status, dl_body, dl_pos,
                  resumed_from, bytes_written, dl_result>>

(* Two request chains, each through a Retry of its own, on one executor
   thread.
   ch_pc:       per chain, where Retry::respond stands: "idle", "loop",
                "sleep" (in Timer::after(delay).await), "done"
   ch_attempts: per chain, the local `attempts`
   ch_issued:   per chain, the requests it gave its inner endpoint
   ch_overlap:  per chain, the requests it gave its inner endpoint while
                the other chain slept
   thread:      the chain that occupies the executor thread, 0 when it is
                free *)
VARIABLES ch_pc, ch_attempts, ch_issued, ch_overlap, thread

chainVars == <<ch_pc, ch_attempts, ch_issued, ch_overlap, thread>>

(* waiting_at_drop: the callers that waited for the token lock when the
                    future of the caller that held it was last dropped *)
VARIABLES waiting_at_drop

cancelVars == <<waiting_at_drop>>

(* what a step of the cache leaves alone *)
notCache == <<redirectVars, retryVars, oauthVars, timeoutVars, downloadVars,
              chainVars, cancelVars>>
(* what a step of FollowRedirect leaves alone *)
notRedirect == <<cacheVars, retryVars, oauthVars, timeoutVars, downloadVars,
                 chainVars, cancelVars>>
(* what a step of Retry leaves alone *)
notRetry == <<cacheVars, redirectVars, oauthVars, timeoutVars, downloadVars,
              chainVars, cancelVars>>
(* what a step of OAuth2ClientCredentials leaves alone *)
notOAuth == <<cacheVars, redirectVars, retryVars, timeoutVars, downloadVars,
              chainVars, cancelVars>>
(* what a step of Timeout leaves alone *)
notTimeout == <<cacheVars, redirectVars, retryVars, oauthVars, downloadVars,
                chainVars, cancelVars>>
(* what a step of a download leaves alone *)
notDownload == <<cacheVars, redirectVars, retryVars, oauthVars, timeoutVars,
                 chainVars, cancelVars>>
(* what a step of the two chains leaves alone *)
notChains == <<cacheVars, redirectVars, retryVars, oauthVars, timeoutVars,
               downloadVars, cancelVars>>
(* what the drop of a caller of OAuth2ClientCredentials leaves alone *)
notCancel == <<cacheVars, redirectVars, retryVars, timeoutVars, downloadVars,
               chainVars>>

vars == <<cacheVars, redirectVars, retryVars, oauthVars, timeoutVars,
          downloadVars, chainVars, cancelVars>>

Uris == {"http://example.com/data"}
Bodies == {"hello", "world"}
ETags == {"v1", "v2"}
LastModifieds == {"m1"}
(* an Expires value that does not parse as an HTTP date *)
BadDate == -1

(* one directive of a Cache-Control value: "name" or "max-age=arg" *)
Dir(n) == [name |-> n, arg |-> -1]
MaxAgeDir(a) == [name |-> "max-age", arg |-> a]

(* CacheControl::from_header_map: fold over the directives in order *)
RECURSIVE LastMaxAge(_, _)
LastMaxAge(cc, i) ==
    IF i = 0 THEN None
    ELSE IF cc[i].name = "max-age" /\ cc[i].arg >= 0 THEN Some(cc[i].arg)
    ELSE LastMaxAge(cc, i - 1)

from_header_map(cc) ==
    [no_cache |-> \E i \in DOMAIN cc : cc[i].name = "no-cache",
     no_store |-> \E i \in DOMAIN cc : cc[i].name = "no-store",
     max_age |-> LastMaxAge(cc, Len(cc)),
     must_revalidate |-> \E i \in DOMAIN cc : cc[i].name = "must-revalidate",
     public |-> \E i \in DOMAIN cc : cc[i].name = "public"]

(* a key for the requests of every method *)
cache_key_any_method(request) == Some(request.uri)

(* the requests a caller sends *)
Request(m, u, cc, auth) ==
    [method |-> m, uri |-> u, cache_control |-> cc, authorization |-> auth,
     if_none_match |-> None, if_modified_since |-> None]

(* HyperBackend::respond and CurlBackend::respond: the request the caller's
   request is replaced by *)
dummy_request == Request("GET", "/", <<>>, FALSE)

(* what the inner endpoint leaves of the request it was lent: the request
   with its headers (AppleBackend, WebBackend), or the dummy request
   (HyperBackend, CurlBackend) *)
BackendLeaves == {"kept", "dummy"}
after_respond(request, leaves) ==
    IF leaves = "dummy" THEN dummy_request ELSE request

(* Cache::cache_key: only GET requests have a key *)
cache_key(request) ==
    IF request.method # "GET" THEN None ELSE Some(request.uri)

(* expires_in: the time left until the Expires date, read at wall time `wall` *)
expires_in(headers, wall) ==
    IF ~headers.expires.some THEN None
    ELSE IF headers.expires.v = BadDate THEN None
    ELSE IF headers.expires.v < wall THEN None
    ELSE IF headers.expires.v - wall = 0 THEN None
    ELSE Some(headers.expires.v - wall)

(* is_fresh counting the second of the request as already elapsed *)
is_fresh_early(entry, now) ==
    entry.freshness.some /\ now - entry.stored_at + 1 < entry.freshness.v

(* CachedResponse::is_fresh *)
is_fresh(entry, now) ==
    entry.freshness.some /\ now - entry.stored_at < entry.freshness.v

(* CachedResponse::can_revalidate *)
can_revalidate(entry) ==
    entry.etag.some \/ entry.last_modified.some

(* apply_conditional_headers that forgets If-None-Match *)
apply_conditional_headers_no_etag(entry, request) ==
    [request EXCEPT
        !.if_modified_since =
            IF entry.last_modified.some THEN entry.last_modified ELSE @]

(* CachedResponse::apply_conditional_headers *)
apply_conditional_headers(entry, request) ==
    [request EXCEPT
        !.if_none_match = IF entry.etag.some THEN entry.etag ELSE @,
        !.if_modified_since =
            IF entry.last_modified.some THEN entry.last_modified ELSE @]

(* to_response that leaves the Age header the origin sent *)
to_response_keeps_age(entry, now) ==
    [status |-> entry.status,
     headers |-> [entry.headers EXCEPT
                     !.age = IF @.some THEN @ ELSE Some(now - entry.stored_at)],
     body |-> entry.body]

(* CachedResponse::to_response: the entry with the Age header overwritten *)
to_response(entry, now) ==
    [status |-> entry.status,
     headers |-> [entry.headers EXCEPT !.age = Some(now - entry.stored_at)],
     body |-> entry.body]

(* a body whose stream fails before its end *)
Broken == "<broken>"

(* from_response that stores whatever it has of a body that fails *)
from_response_unbuffered(response, directives, now, wall, request_no_cache) ==
    LET fromMaxAge == directives.max_age
        freshness == IF fromMaxAge.some THEN fromMaxAge
                     ELSE expires_in(response.headers, wall)
        must_revalidate == directives.no_cache \/ directives.must_revalidate
                           \/ request_no_cache
        should_store == freshness.some \/ must_revalidate
    IN  IF ~should_store
        THEN [ok |-> TRUE, response |-> response, entry |-> None]
        ELSE [ok |-> TRUE,
              response |-> [response EXCEPT !.headers.age = None],
              entry |-> Some([status |-> response.status,
                              headers |-> response.headers,
                              body |-> response.body,
                              stored_at |-> now,
                              freshness |-> freshness,
                              must_revalidate |-> must_revalidate,
                              etag |-> response.headers.etag,
                              last_modified |-> response.headers.last_modified])]

(* CachedResponse::from_response: Result<(response, Option<entry>)>; it fails
   when the body of a response it is to store cannot be read to its end *)
from_response(response, directives, now, wall, request_no_cache) ==
    LET fromMaxAge == directives.max_age
        freshness == IF fromMaxAge.some THEN fromMaxAge
                     ELSE expires_in(response.headers, wall)
        must_revalidate == directives.no_cache \/ directives.must_revalidate
                           \/ request_no_cache
        should_store == freshness.some \/ must_revalidate
    IN  IF ~should_store
        THEN [ok |-> TRUE, response |-> response, entry |-> None]
        ELSE IF response.body = Broken
        THEN [ok |-> FALSE, response |-> response, entry |-> None]
        ELSE [ok |-> TRUE,
              response |-> [response EXCEPT !.headers.age = None],
              entry |-> Some([status |-> response.status,
                              headers |-> response.headers,
                              body |-> response.body,
                              stored_at |-> now,
                              freshness |-> freshness,
                              must_revalidate |-> must_revalidate,
                              etag |-> response.headers.etag,
                              last_modified |-> response.headers.last_modified])]

(* update_from_304 that takes the flag from the directives of the 304 *)
update_from_304_resets_flag(entry, response, now, wall) ==
    LET h == response.headers
        merged == [cache_control |-> IF h.cache_control # <<>>
                                     THEN h.cache_control
                                     ELSE entry.headers.cache_control,
                   etag |-> IF h.etag.some THEN h.etag ELSE entry.headers.etag,
                   expires |-> IF h.expires.some THEN h.expires
                               ELSE entry.headers.expires,
                   last_modified |-> IF h.last_modified.some THEN h.last_modified
                                     ELSE entry.headers.last_modified,
                   age |-> entry.headers.age]
        cc == from_header_map(h.cache_control)
        fromExpires == expires_in(merged, wall)
    IN  [entry EXCEPT
            !.stored_at = now,
            !.headers = merged,
            !.freshness = IF cc.max_age.some THEN cc.max_age
                          ELSE IF fromExpires.some THEN fromExpires
                          ELSE @,
            !.must_revalidate = cc.no_cache \/ cc.must_revalidate]

(* CachedResponse::update_from_304 *)
update_from_304(entry, response, now, wall) ==
    LET h == response.headers
        merged == [cache_control |-> IF h.cache_control # <<>>
                                     THEN h.cache_control
                                     ELSE entry.headers.cache_control,
                   etag |-> IF h.etag.some THEN h.etag ELSE entry.headers.etag,
                   expires |-> IF h.expires.some THEN h.expires
                               ELSE entry.headers.expires,
                   last_modified |-> IF h.last_modified.some THEN h.last_modified
                                     ELSE entry.headers.last_modified,
                   age |-> entry.headers.age]
        cc == from_header_map(h.cache_control)
        fromExpires == expires_in(merged, wall)
    IN  [entry EXCEPT
            !.stored_at = now,
            !.headers = merged,
            !.freshness = IF cc.max_age.some THEN cc.max_age
                          ELSE IF fromExpires.some THEN fromExpires
                          ELSE @,
            !.must_revalidate = @ \/ cc.no_cache \/ cc.must_revalidate]

(* an eviction that leaves the entry where it is *)
remove_nothing(tbl, key) == tbl

(* the table with the entry of `key` removed / inserted *)
remove(tbl, key) == [tbl EXCEPT ![key] = None]
insert(tbl, key, entry) == [tbl EXCEPT ![key] = Some(entry)]

(* Cache::handle, lines 62-73: what the lookup of a stale or must-revalidate
   entry does before the request is dispatched *)
prepare(tbl, key, request, request_cc, now) ==
    IF ~tbl[key].some
    THEN [entries |-> tbl, request |-> request, cached_entry |-> None]
    ELSE LET entry == tbl[key].v
             entry_requires_revalidation ==
                 entry.must_revalidate \/ ~is_fresh(entry, now)
             needs_revalidation ==
                 request_cc.no_cache \/ entry_requires_revalidation
         IN  IF needs_revalidation /\ can_revalidate(entry)
             THEN [entries |-> remove(tbl, key),
                   request |-> apply_conditional_headers(entry, request),
                   cached_entry |-> Some(entry)]
             ELSE IF entry_requires_revalidation /\ ~can_revalidate(entry)
             THEN [entries |-> remove(tbl, key), request |-> request,
                   cached_entry |-> None]
             ELSE [entries |-> tbl, request |-> request, cached_entry |-> None]

(* Cache::handle, lines 75-104: what the answer of the inner endpoint does;
   `after` is the caller's request as the inner endpoint left it *)
complete(prep, key, request_cc, now, wall, inner, after) ==
    IF ~inner.ok
    THEN [entries |-> prep.entries, result |-> inner]
    ELSE IF inner.resp.status = 304
    THEN IF prep.cached_entry.some
         THEN LET entry == update_from_304(prep.cached_entry.v, inner.resp,
                                           now, wall)
              IN  [entries |-> insert(prep.entries, key, entry),
                   result |-> Ok(to_response(entry, now))]
         ELSE [entries |-> prep.entries, result |-> inner]
    ELSE LET response_cc == from_header_map(inner.resp.headers.cache_control)
             auth_present == after.authorization
             allow_shared == ~auth_present \/ response_cc.public
         IN  IF allow_shared /\ ~response_cc.no_store
             THEN LET stored == from_response(inner.resp, response_cc, now,
                                              wall, request_cc.no_cache)
                  IN  IF ~stored.ok
                      THEN [entries |-> prep.entries, result |-> Err("body")]
                      ELSE IF stored.entry.some
                      THEN [entries |-> insert(prep.entries, key,
                                               stored.entry.v),
                            result |-> Ok(to_response(stored.entry.v, now))]
                      ELSE [entries |-> prep.entries,
                            result |-> Ok(stored.response)]
             ELSE [entries |-> prep.entries, result |-> inner]

(* Cache::handle: the table afterwards, the request the inner endpoint was
   given (None when it was not invoked), whether the call held a pending
   entry, and the result returned to the caller.  `inner` is the answer of
   the inner endpoint and `leaves` what it leaves of the request. *)
handle(tbl, request, now, inner, leaves) ==
    LET key == cache_key(request)
        request_cc == from_header_map(request.cache_control)
    IN  IF ~key.some
        THEN [entries |-> tbl, sent |-> Some(request), reval |-> FALSE,
              result |-> inner]
        ELSE IF request_cc.no_store
        THEN [entries |-> remove(tbl, key.v), sent |-> Some(request),
              reval |-> FALSE, result |-> inner]
        ELSE IF /\ tbl[key.v].some
                /\ ~request_cc.no_cache
                /\ ~tbl[key.v].v.must_revalidate
                /\ is_fresh(tbl[key.v].v, now)
        THEN [entries |-> tbl, sent |-> None, reval |-> FALSE,
              result |-> Ok(to_response(tbl[key.v].v, now))]
        ELSE LET prep == prepare(tbl, key.v, request, request_cc, now)
                 done == complete(prep, key.v, request_cc, now, now, inner,
                                  after_respond(prep.request, leaves))
             IN  [entries |-> done.entries, sent |-> Some(prep.request),
                  reval |-> prep.cached_entry.some, result |-> done.result]

Requests ==
    {Request("GET", u, cc, FALSE) :
        u \in Uris, cc \in {<<>>, <<Dir("no-cache")>>, <<Dir("no-store")>>}}
    \cup {Request("GET", u, <<>>, TRUE) : u \in Uris}
    \cup {Request("POST", u, <<>>, FALSE) : u \in Uris}

(* the answers the inner endpoint gives *)
MaxAges == 1..MaxAgeBound
ResponseCacheControls ==
    {<<>>, <<Dir("no-store")>>, <<Dir("no-cache")>>}
    \cup {<<MaxAgeDir(a)>> : a \in MaxAges}
    \cup {<<MaxAgeDir(MaxAgeBound), Dir("no-cache")>>,
          <<MaxAgeDir(MaxAgeBound), Dir("must-revalidate")>>,
          <<Dir("public"), MaxAgeDir(MaxAgeBound)>>}
NotModifiedCacheControls ==
    {<<>>, <<Dir("no-cache")>>, <<MaxAgeDir(MaxAgeBound)>>}
Validators ==
    {[etag |-> None, last_modified |-> None]}
    \cup {[etag |-> Some(e), last_modified |-> None] : e \in ETags}
    \cup {[etag |-> None, last_modified |-> Some(m)] : m \in LastModifieds}
Headers(c, v) ==
    [cache_control |-> c, etag |-> v.etag, last_modified |-> v.last_modified,
     expires |-> None, age |-> None]
(* the Age header of a response that a cache between the origin and the
   inner endpoint has held *)
OriginAge == 7
(* responses that carry an Age header, and responses whose body fails *)
AgedResponses ==
    {[status |-> 200,
      headers |-> [Headers(c, [etag |-> Some("v1"), last_modified |-> None])
                      EXCEPT !.age = Some(OriginAge)],
      body |-> "hello"] :
        c \in {<<>>, <<Dir("no-cache")>>, <<MaxAgeDir(MaxAgeBound)>>}}
BrokenResponses ==
    {[status |-> 200,
      headers |-> Headers(c, [etag |-> None, last_modified |-> None]),
      body |-> Broken] : c \in {<<>>, <<MaxAgeDir(1)>>}}
(* responses with an Expires header: a date after every request, and the
   date of the first request *)
ExpiringResponses ==
    {[status |-> 200,
      headers |-> [Headers(<<>>, [etag |-> None, last_modified |-> None])
                      EXCEPT !.expires = Some(e)],
      body |-> "hello"] : e \in {0, MaxTime + 1}}
Responses ==
    {[status |-> 200, headers |-> Headers(c, v), body |-> b] :
        c \in ResponseCacheControls, v \in Validators, b \in Bodies}
    \cup {[status |-> 304, headers |-> Headers(c, v), body |-> ""] :
        c \in NotModifiedCacheControls, v \in Validators}
    \cup AgedResponses \cup BrokenResponses \cup ExpiringResponses
InnerResults == {Ok(r) : r \in Responses} \cup {Err("transport")}

(* of what the inner endpoint leaves of the request Cache::handle reads the
   Authorization header alone (line 89) *)
Leaves(request) == IF request.authorization THEN BackendLeaves ELSE {"kept"}

(* what the caller sees of a result: the status, the body and the Age header *)
seen(result) ==
    IF result.ok
    THEN [ok |-> TRUE, status |-> result.resp.status,
          body |-> result.resp.body, age |-> result.resp.headers.age]
    ELSE [ok |-> FALSE, status |-> 0, body |-> "", age |-> None]

CacheInit ==
    /\ entries = [u \in Uris |-> None]
    /\ clock = 0
    /\ cache_in = None
    /\ inner_req = None
    /\ revalidated = FALSE
    /\ cache_out = None
    /\ answered = None
    /\ no_store_last = [u \in Uris |-> FALSE]
    /\ answered_public = FALSE
    /\ answered_meta = None

(* a caller builds a request for the Cache *)
CacheSend ==
    /\ ~cache_in.some \/ cache_out.some
    /\ \E request \in Requests : cache_in' = Some(request)
    /\ inner_req' = None
    /\ revalidated' = FALSE
    /\ cache_out' = None
    /\ answered' = None
    /\ answered_public' = FALSE
    /\ answered_meta' = None
    /\ UNCHANGED <<entries, clock, no_store_last>>
    /\ UNCHANGED notCache

(* one call of Cache::handle, the inner endpoint's answer included *)
CacheHandle ==
    /\ cache_in.some /\ ~cache_out.some
    /\ \E inner \in InnerResults, leaves \in Leaves(cache_in.v) :
         \E h \in {handle(entries, cache_in.v, clock, inner, leaves)} :
             /\ entries' = h.entries
             /\ answered_public' =
                  (/\ h.sent.some /\ inner.ok
                   /\ from_header_map(inner.resp.headers.cache_control).public)
             /\ answered_meta' =
                  IF h.sent.some /\ inner.ok
                  THEN Some([cache_control |->
                                 from_header_map(
                                     inner.resp.headers.cache_control),
                             expires |-> inner.resp.headers.expires])
                  ELSE None
             /\ inner_req' = h.sent
             /\ revalidated' = h.reval
             /\ cache_out' = Some(seen(h.result))
             /\ answered' = IF h.sent.some THEN Some(seen(inner)) ELSE None
             /\ no_store_last' =
                  IF h.sent.some /\ inner.ok /\ cache_in.v.method = "GET"
                  THEN [no_store_last EXCEPT ![cache_in.v.uri] =
                           from_header_map(
                               inner.resp.headers.cache_control).no_store]
                  ELSE no_store_last
    /\ UNCHANGED <<clock, cache_in>>
    /\ UNCHANGED notCache

(* a second passes between two requests *)
CacheTick ==
    /\ ~cache_in.some \/ cache_out.some
    /\ clock < MaxTime
    /\ clock' = clock + 1
    /\ UNCHANGED <<entries, cache_in, inner_req, revalidated, cache_out,
                   answered, no_store_last, answered_public, answered_meta>>
    /\ UNCHANGED notCache

CacheNext == CacheSend \/ CacheHandle \/ CacheTick


(***************************************************************************)
(* Claims about the Cache                                                  *)
(***************************************************************************)
(* the request the inner endpoint was given carries a conditional header *)
is_conditional(sent) ==
    sent.some /\ (sent.v.if_none_match.some \/ sent.v.if_modified_since.some)

(* a step of CacheHandle on a GET: the call goes from pending to answered *)
HandlesGet ==
    /\ cache_in.some /\ ~cache_out.some /\ cache_out'.some
    /\ cache_in.v.method = "GET"

(* the request of the pending call carries neither no-cache nor no-store *)
PlainRequest ==
    /\ ~from_header_map(cache_in.v.cache_control).no_cache
    /\ ~from_header_map(cache_in.v.cache_control).no_store

(* the entry stored for the URI of the pending call *)
Stored == entries[cache_in.v.uri]

(* the call was answered from the table: the inner endpoint was not invoked
   and the caller got the body of the entry that was stored *)
ServedFromTable ==
    /\ inner_req' = None
    /\ cache_out'.v.ok
    /\ cache_out'.v.body = Stored.v.body
    /\ entries' = entries

(* C1 as stated: every GET without request no-cache or no-store that arrives
   less than N seconds after a response with max-age=N was stored for its URI
   returns the stored body without invoking the inner endpoint. *)
C1_Original ==
    [][(/\ HandlesGet /\ PlainRequest
        /\ Stored.some /\ Stored.v.freshness.some
        /\ clock - Stored.v.stored_at < Stored.v.freshness.v)
       => ServedFromTable]_cacheVars

(* C1 amended: the same, for an entry that is still in the table and is not
   marked must_revalidate (its response carried neither no-cache nor
   must-revalidate and the request that stored it carried no no-cache). *)
C1_FreshHit ==
    [][(/\ HandlesGet /\ PlainRequest
        /\ Stored.some /\ Stored.v.freshness.some
        /\ ~Stored.v.must_revalidate
        /\ clock - Stored.v.stored_at < Stored.v.freshness.v)
       => ServedFromTable]_cacheVars

(* a GET answered from the table one second after the entry was stored *)
C1_Witness ==
    /\ cache_in.some /\ cache_out.some
    /\ cache_in.v.method = "GET"
    /\ inner_req = None
    /\ cache_out.v.ok
    /\ cache_out.v.age = Some(1)
    /\ entries[cache_in.v.uri].some
    /\ cache_out.v.body = entries[cache_in.v.uri].v.body

(* C2: when the latest response of the inner endpoint for a URI carried
   Cache-Control: no-store, the next GET for that URI invokes the inner
   endpoint again, whatever entry earlier requests left in the table. *)
C2_NoStoreReinvokes ==
    [][(HandlesGet /\ no_store_last[cache_in.v.uri])
       => inner_req'.some]_cacheVars

(* C3 as stated: once an entry with an ETag that must be revalidated is
   stored, every later GET for its URI is sent to the inner endpoint with
   If-None-Match set to the stored ETag. *)
C3_Original ==
    [][(/\ HandlesGet
        /\ Stored.some /\ Stored.v.etag.some /\ Stored.v.must_revalidate)
       => (inner_req'.some
           /\ inner_req'.v.if_none_match = Stored.v.etag)]_cacheVars

(* C3 amended: while the table holds an entry with an ETag that is marked
   must_revalidate, every GET for its URI that does not itself carry
   no-store is sent to the inner endpoint with If-None-Match equal to the
   entry's ETag (and If-Modified-Since equal to its Last-Modified, when it
   has one); a 304 answer makes the Cache return the entry's status and
   body; and a call sends a conditional request exactly when it is a
   revalidating call. *)
C3_Revalidates ==
    [][/\ (/\ HandlesGet
           /\ ~from_header_map(cache_in.v.cache_control).no_store
           /\ Stored.some /\ Stored.v.etag.some /\ Stored.v.must_revalidate)
          => /\ inner_req'.some
             /\ inner_req'.v.if_none_match = Stored.v.etag
             /\ Stored.v.last_modified.some
                  => inner_req'.v.if_modified_since = Stored.v.last_modified
             /\ revalidated'
             /\ (answered'.v.ok /\ answered'.v.status = 304)
                  => /\ cache_out'.v.ok
                     /\ cache_out'.v.status = Stored.v.status
                     /\ cache_out'.v.body = Stored.v.body
                     /\ entries'[cache_in.v.uri].some
       /\ (cache_out'.some /\ ~cache_out.some)
          => (revalidated' <=> is_conditional(inner_req'))]_cacheVars

(* a revalidating call that was answered 304 and returned the stored body *)
C3_Witness ==
    /\ cache_out.some /\ cache_out.v.ok
    /\ revalidated
    /\ inner_req.some /\ inner_req.v.if_none_match.some
    /\ answered.some /\ answered.v.ok /\ answered.v.status = 304
    /\ cache_out.v.status = 200
    /\ cache_out.v.body \in Bodies

(* C16: a response that is not marked public and answers a GET that carried
   an Authorization header is returned to the caller and not stored: after
   the call the table holds for the URI what it held before, or nothing. *)
C16_AuthNotStored ==
    [][(/\ HandlesGet
        /\ cache_in.v.authorization
        /\ answered'.some /\ answered'.v.ok /\ answered'.v.status # 304
        /\ ~answered_public')
       => /\ cache_out' = answered'
          /\ entries'[cache_in.v.uri] \in {None, entries[cache_in.v.uri]}]_vars

(* C17: a request whose method is not GET is given to the inner endpoint,
   once and as it is; the caller gets the inner endpoint's answer, also
   when the table holds an entry for the URI, and the table stays as it
   was. *)
C17_NonGetBypass ==
    [][(/\ cache_in.some /\ ~cache_out.some /\ cache_out'.some
        /\ cache_in.v.method # "GET")
       => /\ inner_req' = Some(cache_in.v)
          /\ answered'.some
          /\ cache_out' = answered'
          /\ entries' = entries]_vars

(* a POST answered by the inner endpoint while the table held a fresh entry
   with another body for its URI *)
C17_Witness ==
    /\ cache_in.some /\ cache_out.some
    /\ cache_in.v.method = "POST"
    /\ inner_req = Some(cache_in.v)
    /\ entries[cache_in.v.uri].some
    /\ ~entries[cache_in.v.uri].v.must_revalidate
    /\ is_fresh(entries[cache_in.v.uri].v, clock)
    /\ cache_out.v.ok /\ cache_out.v.status = 200
    /\ cache_out.v.body # entries[cache_in.v.uri].v.body

(* C18: a GET whose Cache-Control contains no-store is given to the inner
   endpoint, once and without conditional headers; when the call ends, with
   a response or with an error, the caller has the inner endpoint's answer
   and the table holds no entry for the URI. *)
C18_RequestNoStore ==
    [][(HandlesGet /\ from_header_map(cache_in.v.cache_control).no_store)
       => /\ inner_req' = Some(cache_in.v)
          /\ answered'.some
          /\ cache_out' = answered'
          /\ entries'[cache_in.v.uri] = None]_vars

(* a GET with no-store, sent after another call had ended, whose answer the
   Cache would have stored for another request, and the table empty *)
C18_Witness ==
    /\ cache_in.some /\ cache_out.some
    /\ cache_in.v.method = "GET"
    /\ from_header_map(cache_in.v.cache_control).no_store
    /\ inner_req = Some(cache_in.v)
    /\ answered.some /\ answered.v.ok /\ answered.v.status = 200
    /\ ~no_store_last[cache_in.v.uri]
    /\ clock = 1
    /\ entries[cache_in.v.uri] = None

(* C23: an entry leaves the table only when the request carries no-store
   or when the entry is stale (or marked must_revalidate) and holds no
   validator; otherwise a call leaves for the URI an entry in the table.  An
   entry that is being revalidated is in the table as it was when the inner
   endpoint answers the conditional request with an error. *)
C23_EntryLeaves ==
    [][/\ (HandlesGet /\ Stored.some /\ entries'[cache_in.v.uri] = None)
          => \/ from_header_map(cache_in.v.cache_control).no_store
             \/ /\ Stored.v.must_revalidate \/ ~is_fresh(Stored.v, clock)
                /\ ~can_revalidate(Stored.v)
       /\ (/\ HandlesGet /\ revalidated'
           /\ answered'.some /\ ~answered'.v.ok)
          => entries'[cache_in.v.uri] = Stored]_vars

(* C24: the conditional request built from an entry carries the validators
   of the latest response the entry was stored or refreshed from: the ETag
   and the Last-Modified of the entry's headers, which a 304 carrying new
   ones has overwritten. *)
C24_ValidatorsRefreshed ==
    \A u \in Uris :
        entries[u].some =>
            LET entry == entries[u].v
                next_request ==
                    apply_conditional_headers(entry,
                                              Request("GET", u, <<>>, FALSE))
            IN  /\ entry.headers.etag.some
                     => next_request.if_none_match = entry.headers.etag
                /\ entry.headers.last_modified.some
                     => next_request.if_modified_since
                            = entry.headers.last_modified

(* a step of CacheHandle on a GET that the inner endpoint answered with a
   response other than 304 *)
AnsweredAnew ==
    /\ HandlesGet
    /\ answered'.some /\ answered'.v.ok /\ answered'.v.status # 304

(* the answer is storable: not no-store, and the request without
   Authorization or the response public *)
Storable ==
    /\ ~answered_meta'.v.cache_control.no_store
    /\ ~cache_in.v.authorization \/ answered_meta'.v.cache_control.public

(* the answer carries max-age or an Expires date in the future, or sets
   no-cache or must-revalidate *)
WorthKeeping ==
    LET cc == answered_meta'.v.cache_control
        expires == answered_meta'.v.expires
    IN  \/ cc.max_age.some
        \/ expires.some /\ expires.v # BadDate /\ expires.v > clock
        \/ cc.no_cache \/ cc.must_revalidate

(* C25: a response other than 304 to a GET, with a body that can be read,
   is stored exactly when it is storable and worth keeping; otherwise the
   table holds no entry for the URI after the call and the caller gets the
   response as the inner endpoint gave it. *)
C25_StorageDecision ==
    [][(AnsweredAnew /\ answered'.v.body # Broken)
       => IF Storable /\ WorthKeeping
          THEN /\ entries'[cache_in.v.uri].some
               /\ entries'[cache_in.v.uri].v.stored_at = clock
               /\ entries'[cache_in.v.uri].v.body = answered'.v.body
          ELSE /\ entries'[cache_in.v.uri] = None
               /\ cache_out' = answered']_vars

(* the call answered from an entry: a fresh hit, an entry refreshed by a
   304, or an entry the call has put into the table *)
Synthesized ==
    /\ HandlesGet /\ cache_out'.v.ok
    /\ \/ inner_req' = None
       \/ revalidated' /\ answered'.v.ok /\ answered'.v.status = 304
       \/ /\ AnsweredAnew
          /\ entries'[cache_in.v.uri].some
          /\ revalidated' \/ entries'[cache_in.v.uri] # Stored

(* C26: a response synthesized from an entry carries as Age the seconds
   between the entry's stored_at and the request, whatever Age the origin
   sent; it is 0 when the entry was stored or refreshed by this call. *)
C26_AgeHeader ==
    [][Synthesized
       => /\ entries'[cache_in.v.uri].some
          /\ cache_out'.v.age
                = Some(clock - entries'[cache_in.v.uri].v.stored_at)
          /\ inner_req'.some => cache_out'.v.age = Some(0)]_vars

(* a fresh hit, one second after it was stored, on an entry whose response
   came with the Age header of the origin *)
C26_Witness ==
    /\ cache_in.some /\ cache_out.some /\ cache_out.v.ok
    /\ cache_in.v.method = "GET"
    /\ inner_req = None
    /\ entries[cache_in.v.uri].some
    /\ entries[cache_in.v.uri].v.headers.age = Some(OriginAge)
    /\ clock - entries[cache_in.v.uri].v.stored_at = 1
    /\ cache_out.v.age = Some(1)

(* a step of CacheHandle in which the body of a storable response that is
   to be stored fails while it is buffered *)
BufferingFails ==
    /\ AnsweredAnew
    /\ answered'.v.body = Broken
    /\ ~from_header_map(cache_in.v.cache_control).no_store
    /\ Storable
    /\ WorthKeeping \/ from_header_map(cache_in.v.cache_control).no_cache

(* a plain GET for the URI of the call, sent next, reaches the inner
   endpoint *)
NextGetContactsInner ==
    handle(entries', Request("GET", cache_in.v.uri, <<>>, FALSE), clock,
           Err("transport"), "kept").sent.some

(* C27 as stated: when buffering fails the call returns an error, no entry
   is inserted, and a later GET for the URI contacts the inner endpoint. *)
C27_Original ==
    [][BufferingFails
       => /\ ~cache_out'.v.ok
          /\ entries'[cache_in.v.uri] \in {None, Stored}
          /\ NextGetContactsInner]_vars

(* C27 amended: when buffering fails the call returns an error and no entry
   is inserted: the table holds for the URI nothing, or the entry it held
   before; a later GET for the URI contacts the inner endpoint again when
   the table holds nothing for the URI, which is so whenever the failed
   request carried no no-cache. *)
C27_BufferingFailure ==
    [][BufferingFails
       => /\ ~cache_out'.v.ok
          /\ entries'[cache_in.v.uri] \in {None, Stored}
          /\ ~from_header_map(cache_in.v.cache_control).no_cache
                => entries'[cache_in.v.uri] = None
          /\ entries'[cache_in.v.uri] = None => NextGetContactsInner]_vars

(* a call that failed on the body of a response with max-age and left the
   table empty *)
C27_Witness ==
    /\ cache_in.some /\ cache_out.some
    /\ cache_in.v.method = "GET"
    /\ inner_req.some
    /\ answered.some /\ answered.v.ok /\ answered.v.body = Broken
    /\ answered_meta.some /\ answered_meta.v.cache_control.max_age.some
    /\ ~cache_out.v.ok
    /\ entries[cache_in.v.uri] = None

(***************************************************************************)
(*                           FollowRedirect                                *)
(***************************************************************************)
MAX_REDIRECTS == 10

Hosts == {"a.example", "b.example"}
Paths == {"/start", "/next"}
Url(h, p) == [host |-> h, path |-> p]
Urls == {Url(h, p) : h \in Hosts, p \in Paths}
Methods == {"GET", "HEAD", "POST", "PUT"}

(* the Location header of a response: an absolute URL, a path relative to
   the current URL, a value that is no string, a value no URL can be made
   of, or no header at all *)
Locations ==
    {[kind |-> "absolute", host |-> u.host, path |-> u.path] : u \in Urls}
    \cup {[kind |-> "relative", host |-> "", path |-> p] : p \in Paths}
    \cup {[kind |-> k, host |-> "", path |-> ""] :
            k \in {"missing", "not-a-string", "unparsable"}}

(* StatusCode::is_redirection *)
is_redirection(status) == 300 <= status /\ status <= 399

(* a relative Location joined to the URL of the original request *)
resolve_from_original(current, location) ==
    IF location.kind = "absolute" THEN Some(Url(location.host, location.path))
    ELSE IF location.kind = "relative"
    THEN Some(Url(red_orig.url.host, location.path))
    ELSE None

(* Url::parse(location).or_else(|_| current_url.join(location)) *)
resolve(current, location) ==
    IF location.kind = "absolute" THEN Some(Url(location.host, location.path))
    ELSE IF location.kind = "relative"
    THEN Some(Url(current.host, location.path))
    ELSE None

(* next_method with 301/302 downgrading every method, GET and HEAD included *)
next_method_always_get(status, method) ==
    IF status = 303 THEN "GET"
    ELSE IF status \in {301, 302} THEN "GET"
    ELSE method

(* FollowRedirect::respond, lines 129-137 *)
next_method(status, method) ==
    IF status = 303 THEN "GET"
    ELSE IF status \in {301, 302} /\ method # "GET" /\ method # "HEAD"
    THEN "GET"
    ELSE method

(* the credentials stripped by every redirect *)
strip_always(stripped, current, target) == TRUE

(* the stripping flag forgotten when the redirect stays on the host *)
strip_not_sticky(stripped, current, target) ==
    current.host # target.host

(* FollowRedirect::respond, lines 146-148: auth_stripped after the hop *)
strip(stripped, current, target) ==
    stripped \/ current.host # target.host

(* the headers of the next hop with Host left in *)
next_headers_keeps_host(initial_headers, method, stripped) ==
    (initial_headers
        \ (IF method \in {"GET", "HEAD"}
           THEN {"content-length", "content-type"} ELSE {}))
        \ (IF stripped THEN {"authorization", "cookie"} ELSE {})

(* FollowRedirect::respond, lines 139-152: the headers of the next hop *)
next_headers(initial_headers, method, stripped) ==
    ((initial_headers \ {"host"})
        \ (IF method \in {"GET", "HEAD"}
           THEN {"content-length", "content-type"} ELSE {}))
        \ (IF stripped THEN {"authorization", "cookie"} ELSE {})

(* build_request that gives every method the body *)
build_request_keeps_body(body, method, url, headers, suppress_auth) ==
    [method |-> method,
     url |-> url,
     headers |-> IF suppress_auth THEN headers \ {"authorization", "cookie"}
                 ELSE headers,
     body |-> body,
     suppress_auth |-> suppress_auth]

(* RequestSnapshot::build_request *)
build_request(body, method, url, headers, suppress_auth) ==
    [method |-> method,
     url |-> url,
     headers |-> IF suppress_auth THEN headers \ {"authorization", "cookie"}
                 ELSE headers,
     body |-> IF method \in {"GET", "HEAD"} THEN "" ELSE body,
     suppress_auth |-> suppress_auth]

HeaderSets ==
    {{}, {"accept"}, {"authorization", "cookie", "accept"},
     {"host", "content-length", "content-type", "authorization", "cookie",
      "accept"}}
(* the requests of the callers; the last two cannot be followed: one has a
   URI without a host, the other a body that was taken before *)
RedirectRequests ==
    [method : Methods, url : {Url("a.example", "/start")},
     headers : HeaderSets, body : {"payload"}]
    \cup {[method |-> "GET", url |-> Url("", "/start"), headers |-> {},
           body |-> ""],
          [method |-> "POST", url |-> Url("a.example", "/start"),
           headers |-> {}, body |-> Consumed]}

(* RequestSnapshot::from_request and Url::parse, lines 89-92: the error the
   call ends with before its first request, if any *)
early_error(request) ==
    IF request.body = Consumed THEN Some(Err("RequestBuildError"))
    ELSE IF request.url.host = "" THEN Some(Err("InvalidUrl"))
    ELSE None

(* the two ways a call ends before its first request *)
early_cause(request) ==
    IF request.body = Consumed THEN "body-taken"
    ELSE IF request.url.host = "" THEN "request-uri"
    ELSE ""

(* the bound tested only after the count has passed it *)
limit_reached_late(count) == count > MAX_REDIRECTS

(* FollowRedirect::respond, line 114 *)
limit_reached(count) == count >= MAX_REDIRECTS

(* the ways a redirect response or the inner endpoint ends the call *)
FailureModes == {"bound", "missing", "invalid-value", "unparsable", "inner"}

(* FollowRedirect::respond, lines 104-127: the FollowRedirectError each
   failure mode ends the call with *)
FailureKind(mode) ==
    IF mode = "inner" THEN "RemoteError"
    ELSE IF mode = "bound" THEN "TooManyRedirects"
    ELSE IF mode = "missing" THEN "MissingLocationHeader"
    ELSE "InvalidLocationHeader"

(* From<FollowRedirectError<H>> for Error: the variant of the unified error;
   a RemoteError becomes what the inner error converts into and a
   RequestBuildError is the Error it holds *)
into_Error(kind) ==
    IF kind = "InvalidUrl" THEN "InvalidUri"
    ELSE IF kind = "RemoteError" THEN "Inner"
    ELSE IF kind = "TooManyRedirects" THEN "TooManyRedirects"
    ELSE IF kind \in {"MissingLocationHeader", "InvalidLocationHeader"}
    THEN "InvalidRedirectLocation"
    ELSE "InvalidRequest"

(* what a redirect response makes of the call: a failure mode, or "" when
   the redirect is followed *)
redirect_failure(count, current, location) ==
    IF limit_reached(count) THEN "bound"
    ELSE IF location.kind = "missing" THEN "missing"
    ELSE IF location.kind = "not-a-string" THEN "invalid-value"
    ELSE IF ~resolve(current, location).some THEN "unparsable"
    ELSE ""
RedirectStatuses == {200, 404, 300, 301, 302, 303, 307, 308}
RedirectAnswers ==
    {Ok([status |-> st, location |-> l]) :
        st \in RedirectStatuses, l \in Locations}
    \cup {Err("transport")}

NoUrl == Url("", "")
NoLocation == [kind |-> "missing", host |-> "", path |-> ""]

RedirectInit ==
    /\ red_pc = "idle"
    /\ red_orig = [method |-> "", url |-> NoUrl, headers |-> {}, body |-> ""]
    /\ current_method = ""
    /\ current_url = NoUrl
    /\ current_headers = {}
    /\ redirect_count = 0
    /\ auth_stripped = FALSE
    /\ red_req = None
    /\ red_status = 0
    /\ red_result = None
    /\ left_origin = FALSE
    /\ red_sent = 0
    /\ red_cause = ""
    /\ red_location = NoLocation

(* FollowRedirect::respond, lines 88-95: the call begins *)
RedirectStart ==
    /\ red_pc \in {"idle", "done"}
    /\ \E request \in RedirectRequests :
         /\ red_orig' = request
         /\ current_method' = request.method
         /\ current_url' = request.url
         /\ current_headers' = request.headers
         /\ red_result' = early_error(request)
         /\ red_pc' = IF early_error(request).some THEN "done" ELSE "loop"
         /\ red_cause' = early_cause(request)
    /\ red_location' = NoLocation
    /\ red_sent' = 0
    /\ redirect_count' = 0
    /\ auth_stripped' = FALSE
    /\ red_req' = None
    /\ red_status' = 0
    /\ left_origin' = FALSE
    /\ UNCHANGED notRedirect

(* the call returns `result`, ended by `cause` *)
RedirectReturn(result, cause) ==
    /\ red_result' = Some(result)
    /\ red_cause' = cause
    /\ red_pc' = "done"
    /\ red_location' = NoLocation
    /\ UNCHANGED <<current_method, current_url, current_headers,
                   redirect_count, auth_stripped>>

(* FollowRedirect::respond, lines 97-158: one turn of the loop, the inner
   endpoint's answer included *)
RedirectHop ==
    /\ red_pc = "loop"
    /\ red_req' = Some(build_request(red_orig.body, current_method,
                                     current_url, current_headers,
                                     auth_stripped))
    /\ red_sent' = red_sent + 1
    /\ left_origin' = (left_origin \/ current_url.host # red_orig.url.host)
    /\ UNCHANGED red_orig
    /\ UNCHANGED notRedirect
    /\ \E answer \in RedirectAnswers :
         IF ~answer.ok
         THEN /\ red_status' = 0
              /\ RedirectReturn(Err(FailureKind("inner")), "inner")
         ELSE /\ red_status' = answer.resp.status
              /\ LET failure == redirect_failure(redirect_count, current_url,
                                                 answer.resp.location)
                 IN
                 IF ~is_redirection(answer.resp.status)
                 THEN RedirectReturn(Ok(answer.resp.status), "response")
                 ELSE IF failure # ""
                 THEN RedirectReturn(Err(FailureKind(failure)), failure)
                 ELSE LET redirect_url ==
                              resolve(current_url, answer.resp.location).v
                          method == next_method(answer.resp.status,
                                                current_method)
                          stripped == strip(auth_stripped, current_url,
                                            redirect_url)
                      IN  /\ current_headers' =
                               next_headers(red_orig.headers, method, stripped)
                          /\ auth_stripped' = stripped
                          /\ current_url' = redirect_url
                          /\ current_method' = method
                          /\ redirect_count' = redirect_count + 1
                          /\ red_location' = answer.resp.location
                          /\ UNCHANGED <<red_pc, red_result, red_cause>>

RedirectNext == RedirectStart \/ RedirectHop


(***************************************************************************)
(* Claims about FollowRedirect                                             *)
(***************************************************************************)
(* a step of RedirectHop that follows a redirect *)
FollowsRedirect == red_pc = "loop" /\ redirect_count' = redirect_count + 1

(* C4: the method of the next hop is GET after 303; GET after 301 or 302
   when the current method is neither GET nor HEAD; and the current method
   after 301/302 on GET or HEAD and after every other redirect status.  The
   request of every hop carries the method so computed. *)
C4_MethodTransition ==
    [][/\ FollowsRedirect =>
            /\ red_status' = 303 => current_method' = "GET"
            /\ (red_status' \in {301, 302}
                /\ current_method \notin {"GET", "HEAD"})
                 => current_method' = "GET"
            /\ (red_status' \in {301, 302}
                /\ current_method \in {"GET", "HEAD"})
                 => current_method' = current_method
            /\ red_status' \notin {301, 302, 303}
                 => current_method' = current_method
       /\ (red_pc = "loop" /\ red_req'.some)
            => red_req'.v.method = current_method]_redirectVars

(* a HEAD request that stayed HEAD across a 301, after one hop already *)
C4_Witness ==
    /\ red_pc = "loop"
    /\ redirect_count = 2
    /\ red_orig.method = "HEAD"
    /\ red_status = 301
    /\ current_method = "HEAD"
    /\ red_req.some /\ red_req.v.method = "HEAD"

(* C5: once a request of the call has gone to a host other than the original
   one, that request and the request of every later hop carry neither
   Authorization nor Cookie, also when a later redirect returns to the
   original host. *)
C5_StickyStripping ==
    (red_req.some /\ left_origin)
        => /\ "authorization" \notin red_req.v.headers
           /\ "cookie" \notin red_req.v.headers

(* a request sent to the original host after the call had left it, for an
   original request that carried Authorization and Cookie *)
C5_Witness ==
    /\ red_req.some
    /\ left_origin
    /\ red_req.v.url.host = red_orig.url.host
    /\ {"authorization", "cookie"} \subseteq red_orig.headers
    /\ "accept" \in red_req.v.headers

(* C13: a call gives the inner endpoint at most MAX_REDIRECTS + 1 = 11
   requests; it follows at most 10 redirects, a final response coming to the
   request after the last redirect followed; and it ends with the
   too-many-redirects error exactly when its 11th request, each of the ten
   before it answered by a redirect, is answered by a redirect too. *)
C13_RedirectBound ==
    /\ red_sent <= MAX_REDIRECTS + 1
    /\ redirect_count <= MAX_REDIRECTS
    /\ red_pc = "loop" => red_sent = redirect_count
    /\ (red_pc = "done" /\ red_result.v.ok)
         => red_sent = redirect_count + 1
    /\ (red_pc = "done" /\ red_result.v = Err("TooManyRedirects"))
         <=> (/\ red_pc = "done"
              /\ red_sent = MAX_REDIRECTS + 1
              /\ redirect_count = MAX_REDIRECTS
              /\ is_redirection(red_status))

(* the 11th request of a call answered by a redirect *)
C13_Witness ==
    /\ red_pc = "done"
    /\ red_sent = 11
    /\ redirect_count = 10
    /\ red_status = 302
    /\ red_result = Some(Err("TooManyRedirects"))

(* C28: the request of every hop has an empty body when its method is GET
   or HEAD and the body of the original request otherwise, however many
   hops came before it; and after a request of a call had an empty body no
   later request of the call has another. *)
C28_BodyReplay ==
    /\ [](red_req.some
            => red_req.v.body = IF red_req.v.method \in {"GET", "HEAD"}
                                THEN "" ELSE red_orig.body)
    /\ [][(red_pc = "loop" /\ red_req.some /\ red_req.v.body = "")
            => red_req'.v.body = ""]_vars

(* the third request of a POST, after two redirects that kept the method,
   with the body of the original request *)
C28_Witness ==
    /\ red_sent = 3 /\ redirect_count = 2
    /\ red_orig.method = "POST"
    /\ red_status \in {307, 308}
    /\ red_req.some /\ red_req.v.method = "POST"
    /\ red_req.v.body = "payload"

(* C29 as stated: the request of every hop after the first carries neither
   Host nor Content-Length, and no Content-Type when its method is GET or
   HEAD. *)
C29_Original ==
    (red_req.some /\ red_sent >= 2)
        => /\ "host" \notin red_req.v.headers
           /\ "content-length" \notin red_req.v.headers
           /\ red_req.v.method \in {"GET", "HEAD"}
                => "content-type" \notin red_req.v.headers

(* C29 amended: the request of every hop after the first carries no Host;
   it carries neither Content-Length nor Content-Type when its method is
   GET or HEAD, and otherwise carries each of the two exactly when the
   original request did. *)
C29_HeaderTransition ==
    (red_req.some /\ red_sent >= 2)
        => /\ "host" \notin red_req.v.headers
           /\ \A name \in {"content-length", "content-type"} :
                IF red_req.v.method \in {"GET", "HEAD"}
                THEN name \notin red_req.v.headers
                ELSE name \in red_req.v.headers <=> name \in red_orig.headers

(* a PUT re-issued after a redirect that kept the method, for an original
   request that carried Host, Content-Length and Content-Type *)
C29_Witness ==
    /\ red_req.some /\ red_sent = 2
    /\ red_req.v.method = "PUT"
    /\ {"host", "content-length", "content-type"} \subseteq red_orig.headers
    /\ "host" \notin red_req.v.headers
    /\ {"content-length", "content-type"} \subseteq red_req.v.headers

(* C30: the request of every hop carries every header of the original
   request other than Host, Content-Length, Content-Type, Authorization and
   Cookie; and it carries the Authorization and the Cookie of the original
   request as long as every request of the call, this one included, went to
   the original host. *)
C30_HeaderPreservation ==
    red_req.some
        => /\ (red_orig.headers
                \ {"host", "content-length", "content-type",
                   "authorization", "cookie"}) \subseteq red_req.v.headers
           /\ ~left_origin
                => (red_orig.headers \cap {"authorization", "cookie"})
                       \subseteq red_req.v.headers

(* the third request of a call that never left the original host, with the
   credentials and the Accept header of the original request *)
C30_Witness ==
    /\ red_req.some /\ red_sent = 3 /\ redirect_count = 2
    /\ ~left_origin
    /\ red_req.v.url # red_orig.url
    /\ {"authorization", "cookie", "accept"} \subseteq red_orig.headers
    /\ {"authorization", "cookie", "accept"} \subseteq red_req.v.headers

(* C31: a redirect that is followed with an absolute Location makes that
   URL the current URL; followed with a relative Location it makes the
   current URL the Location joined to the URL of the request that the
   redirect answered, which is the current URL before the step. *)
C31_TargetResolution ==
    [][FollowsRedirect
       => /\ red_location'.kind \in {"absolute", "relative"}
          /\ red_location'.kind = "absolute"
               => current_url' = Url(red_location'.host, red_location'.path)
          /\ red_location'.kind = "relative"
               => current_url' = Url(current_url.host, red_location'.path)]_vars

(* a relative Location followed after the call had moved to another host:
   the next request stays on that host *)
C31_Witness ==
    /\ red_pc = "loop" /\ redirect_count = 2
    /\ red_location.kind = "relative"
    /\ red_req.some /\ red_req.v.url.host # red_orig.url.host
    /\ current_url = Url(red_req.v.url.host, red_location.path)
    /\ current_url.path # red_req.v.url.path

(* C19: a call that the redirect bound, a missing Location header, a
   Location value that is no string, a redirect URL that cannot be parsed or
   an error of the inner endpoint ends, ends with an error whose kind is the
   kind of no other of these five failure modes, as a FollowRedirectError
   and converted into the unified Error alike. *)
C19_DistinctFailures ==
    (red_pc = "done" /\ red_cause \in FailureModes)
        => /\ ~red_result.v.ok
           /\ \A mode \in FailureModes \ {red_cause} :
                /\ red_result.v.err # FailureKind(mode)
                /\ into_Error(red_result.v.err)
                     # into_Error(FailureKind(mode))

(***************************************************************************)
(*                                Retry                                    *)
(***************************************************************************)
(* the width of the u32 that 2u32.pow works in *)
U32_BITS == 32
(* Retry::new: min_delay and max_delay in milliseconds *)
DEFAULT_MIN_DELAY == 100
DEFAULT_MAX_DELAY == 5000

RetryRequests ==
    {[method |-> "GET", uri |-> "/a", headers |-> {"accept"}, body |-> ""],
     [method |-> "POST", uri |-> "/a", headers |-> {"accept", "content-type"},
      body |-> "payload"],
     [method |-> "POST", uri |-> "/a", headers |-> {}, body |-> Consumed]}
RetryStatuses == {200, 404, 500, 503}
(* the errors of the inner endpoint: a failure of the transport, and errors
   of middlewares wrapped inside the Retry *)
RetryErrors == {"transport", "TooManyRedirects", "Timeout"}
RetryAnswers ==
    {Ok(st) : st \in RetryStatuses} \cup {Err(e) : e \in RetryErrors}

(* what the inner endpoint may leave of the request object it was lent *)
Touched(request) ==
    {request,
     [request EXCEPT !.body = Consumed],
     [request EXCEPT !.headers = @ \cup {"x-attempt"}, !.method = "PUT"]}

(* RequestSnapshot::from_request *)
retry_from_request(request) ==
    IF request.body = Consumed THEN Err("InvalidRequest") ELSE Ok(request)

(* build_request that rebuilds everything but the body *)
retry_build_request_no_body(snap) ==
    [snap EXCEPT !.body = ""]

(* RequestSnapshot::build_request *)
retry_build_request(snap) ==
    [method |-> snap.method, uri |-> snap.uri, headers |-> snap.headers,
     body |-> snap.body]

(* min(d * 2^e, cap) for a factor 2^e that fits the u32 *)
RECURSIVE doubled(_, _, _)
doubled(d, e, cap) ==
    IF e = 0 \/ d = 0 \/ d >= cap THEN Min(d, cap)
    ELSE doubled(2 * d, e - 1, cap)

(* Retry::respond, lines 109-110.  From exponent 32 on 2u32.pow overflows:
   a build with overflow checks panics, one without them computes 0 *)
backoff(n, lo, hi, checks) ==
    IF n - 1 >= U32_BITS
    THEN [panic |-> checks, delay |-> Min(0, hi)]
    ELSE [panic |-> FALSE, delay |-> doubled(lo, n - 1, hi)]

(* a match arm that takes a 5xx response for a failure *)
is_response_unless_5xx(answer) == answer.ok /\ answer.resp < 500

(* Retry::respond, lines 99-101: the arm Ok(response) *)
is_response(answer) == answer.ok

NoRequest == [method |-> "", uri |-> "", headers |-> {}, body |-> ""]

(* Retry::new(client, 0) *)
RetryInit ==
    /\ max_retries = 0
    /\ min_delay = DEFAULT_MIN_DELAY
    /\ max_delay = DEFAULT_MAX_DELAY
    /\ overflow_checks = TRUE
    /\ retry_pc = "idle"
    /\ attempts = 0
    /\ snapshot = NoRequest
    /\ retry_orig = NoRequest
    /\ retry_request = NoRequest
    /\ retry_req = None
    /\ retry_last = None
    /\ retry_result = None
    /\ issued = 0
    /\ failed = 0
    /\ sleeps = 0
    /\ delay = 0

(* Retry::new(client, n) and the builders min_delay, max_delay: another
   the Retry is built with other settings, before its first call *)
RetryNew ==
    /\ retry_pc = "idle"
    /\ max_retries' \in 0..MaxRetries
    /\ min_delay' \in {DEFAULT_MIN_DELAY, 0}
    /\ max_delay' \in {DEFAULT_MAX_DELAY, 150}
    /\ overflow_checks' \in BOOLEAN
    /\ retry_pc' = "idle"
    /\ attempts' = 0
    /\ snapshot' = NoRequest
    /\ retry_orig' = NoRequest
    /\ retry_request' = NoRequest
    /\ retry_req' = None
    /\ retry_last' = None
    /\ retry_result' = None
    /\ issued' = 0
    /\ failed' = 0
    /\ sleeps' = 0
    /\ delay' = 0
    /\ UNCHANGED notRetry

(* Retry::respond, lines 95-96: the call begins and takes the snapshot *)
RetryStart ==
    /\ retry_pc \in {"idle", "done"}
    /\ \E request \in RetryRequests :
         /\ retry_orig' = request
         /\ retry_request' = request
         /\ IF retry_from_request(request).ok
            THEN /\ snapshot' = retry_from_request(request).resp
                 /\ retry_pc' = "loop"
                 /\ retry_result' = None
            ELSE /\ snapshot' = NoRequest
                 /\ retry_pc' = "done"
                 /\ retry_result' = Some(retry_from_request(request))
    /\ attempts' = 0
    /\ retry_req' = None
    /\ retry_last' = None
    /\ issued' = 0
    /\ failed' = 0
    /\ sleeps' = 0
    /\ delay' = 0
    /\ UNCHANGED <<max_retries, min_delay, max_delay, overflow_checks>>
    /\ UNCHANGED notRetry

(* Retry::respond, lines 97-111: one attempt, the inner endpoint's answer
   included, up to the return or the start of the sleep *)
RetryAttempt ==
    /\ retry_pc = "loop"
    /\ retry_req' = Some(retry_build_request(snapshot))
    /\ issued' = issued + 1
    /\ \E answer \in RetryAnswers :
         /\ retry_last' = Some(answer)
         /\ \E left \in Touched(retry_build_request(snapshot)) :
              retry_request' = left
         /\ IF is_response(answer)
            THEN /\ retry_result' = Some(answer)
                 /\ retry_pc' = "done"
                 /\ UNCHANGED <<attempts, failed, sleeps, delay>>
            ELSE /\ attempts' = attempts + 1
                 /\ failed' = failed + 1
                 /\ IF attempts + 1 > max_retries
                    THEN /\ retry_result' = Some(answer)
                         /\ retry_pc' = "done"
                         /\ UNCHANGED <<sleeps, delay>>
                    ELSE LET b == backoff(attempts + 1, min_delay, max_delay,
                                          overflow_checks)
                         IN  IF b.panic
                             THEN /\ retry_pc' = "panicked"
                                  /\ UNCHANGED <<retry_result, sleeps, delay>>
                             ELSE /\ retry_pc' = "sleep"
                                  /\ delay' = b.delay
                                  /\ sleeps' = sleeps + 1
                                  /\ UNCHANGED retry_result
    /\ UNCHANGED <<max_retries, min_delay, max_delay, snapshot, retry_orig,
                   overflow_checks>>
    /\ UNCHANGED notRetry

(* Retry::respond, line 113: the timer fires *)
RetryWake ==
    /\ retry_pc = "sleep"
    /\ retry_pc' = "loop"
    /\ UNCHANGED <<max_retries, min_delay, max_delay, attempts, snapshot,
                   retry_orig, retry_request, retry_req, retry_last,
                   retry_result, issued, failed, sleeps, delay,
                   overflow_checks>>
    /\ UNCHANGED notRetry

RetryNext == RetryNew \/ RetryStart \/ RetryAttempt \/ RetryWake

(***************************************************************************)
(* Claims about Retry                                                      *)
(***************************************************************************)
(* C6: a call that took its snapshot never ends in a panic; when it returns
   a response after N failures the inner endpoint was given exactly N+1
   requests and N <= max_retries; when it returns the inner endpoint's error
   the inner endpoint was given exactly max_retries+1 requests, all failed. *)
C6_AttemptCount ==
    /\ retry_pc # "panicked"
    /\ (retry_pc = "done" /\ retry_last.some /\ retry_result.v.ok)
         => (issued = failed + 1 /\ failed <= max_retries)
    /\ (retry_pc = "done" /\ retry_last.some /\ ~retry_result.v.ok)
         => (issued = max_retries + 1 /\ failed = max_retries + 1)

(* C7: the request of every attempt has the method, URI, headers and body of
   the original request, whatever the inner endpoint left of the request
   object on the attempts before. *)
C7_Replay ==
    retry_req.some =>
        /\ retry_req.v.method = retry_orig.method
        /\ retry_req.v.uri = retry_orig.uri
        /\ retry_req.v.headers = retry_orig.headers
        /\ retry_req.v.body = retry_orig.body

(* a third attempt of a POST with a body, begun after the inner endpoint
   consumed the body *)
C7_Witness ==
    /\ retry_pc = "sleep"
    /\ issued = 2
    /\ retry_orig.body = "payload"
    /\ retry_request.body = Consumed
    /\ retry_req.some /\ retry_req.v.body = "payload"

(* C8: once the inner endpoint has returned a response, whatever its
   status, the call has returned that response; the inner endpoint was
   given no request after the one it answered, and no sleep was begun
   after it. *)
C8_ResponseReturned ==
    (retry_last.some /\ retry_last.v.ok) =>
        /\ retry_pc = "done"
        /\ retry_result = retry_last
        /\ issued = failed + 1
        /\ sleeps = failed

(* a 503 returned after one failed attempt, with retries left *)
C8_Witness ==
    /\ retry_last = Some(Ok(503))
    /\ failed = 1
    /\ max_retries = 3
    /\ retry_result = Some(Ok(503))


(* C21: when the inner endpoint has failed with an error that is no
   transport error, the call has returned that error: the inner endpoint is
   given no further request and no sleep is begun. *)
C21_OnlyTransportRetried ==
    (retry_last.some /\ ~retry_last.v.ok /\ retry_last.v.err # "transport")
        => /\ retry_pc = "done"
           /\ retry_result = retry_last

(***************************************************************************)
(*                       OAuth2ClientCredentials                           *)
(***************************************************************************)
(* OAuth2ClientCredentials::new: safety_window, in seconds *)
SAFETY_WINDOW == 30
(* fetch_token: the lifetime of a token whose answer has no expires_in *)
DEFAULT_EXPIRES_IN == 3600

Callers == 1..NumCallers

(* a lock that is given to whoever asks *)
can_lock_always(holder) == TRUE

(* Mutex::lock().await: the guard is given when no caller holds one *)
can_lock(holder) == holder = 0

(* the time a token is held valid with the whole safety window taken off *)
validity_whole_window(answered_in, safety_window) ==
    LET lifetime == IF answered_in.some THEN answered_in.v
                    ELSE DEFAULT_EXPIRES_IN
    IN  IF lifetime >= safety_window THEN lifetime - safety_window ELSE 0

(* is_valid that holds a token valid at the instant it expires *)
is_valid_inclusive(info, now) == now <= info.expires_at

(* TokenInfo::is_valid *)
is_valid(info, now) == now < info.expires_at

(* the second check of ensure_token left out *)
still_missing_unchecked(slot, now) == TRUE

(* ensure_token, lines 130-134 and 140-144: the slot holds no token that is
   valid at `now` *)
still_missing(slot, now) == ~(slot.some /\ is_valid(slot.v, now))

(* fetch_token, lines 181-187: the time a token is held valid; `answered_in`
   is the expires_in of the answer *)
validity(answered_in, safety_window) ==
    LET lifetime == IF answered_in.some THEN answered_in.v
                    ELSE DEFAULT_EXPIRES_IN
        safety == Min(safety_window, lifetime \div 2)
    IN  IF lifetime >= safety THEN lifetime - safety ELSE 0

(* fetch_token, lines 188-192 *)
TokenInfo(id, answered_in, now) ==
    [access_token |-> id,
     expires_at |-> now + validity(answered_in, SAFETY_WINDOW),
     fetched_at |-> now,
     expires_in |-> IF answered_in.some THEN answered_in.v
                    ELSE DEFAULT_EXPIRES_IN]

(* the value of an Authorization header: none, or a scheme and credentials *)
NoHeader == [scheme |-> "", cred |-> <<>>]
(* the Authorization headers callers set themselves *)
OwnHeaders ==
    {[scheme |-> "Basic", cred |-> <<"dXNlcjpwdw==">>],
     [scheme |-> "Bearer", cred |-> <<"mine">>]}
(* format!("Bearer {token}") *)
Bearer(access_token) ==
    [scheme |-> "Bearer", cred |-> <<ToString(access_token)>>]

(* handle takes every request for one that needs a token *)
needs_token_always(authorization) == TRUE

(* handle, line 217: the request has no Authorization header *)
needs_token(authorization) == authorization = NoHeader

(* the answers of the token endpoint: no answer; a status that is no
   success; a success whose body is no token; a token with or without
   expires_in *)
TokenAnswers ==
    {[ok |-> FALSE, err |-> "Transport", status |-> 0],
     [ok |-> FALSE, err |-> "Upstream", status |-> 401],
     [ok |-> FALSE, err |-> "Upstream", status |-> 500],
     [ok |-> FALSE, err |-> "InvalidResponse", status |-> 200]}
    \cup {[ok |-> TRUE, resp |-> Some(e), status |-> 200] :
            e \in 0..MaxExpiresIn}
    \cup {[ok |-> TRUE, resp |-> None, status |-> 200]}

(* OAuth2Error::status with 502 for an upstream error *)
OAuth2Error_status_502(err, status) ==
    IF err = "Transport" THEN 0 ELSE 502

(* OAuth2Error::status: the status an upstream error carries, 502 Bad
   Gateway for an answer that is no token; a transport error has the status
   of the backend's error, which is left open as 0 *)
OAuth2Error_status(err, status) ==
    IF err = "Upstream" THEN status
    ELSE IF err = "InvalidResponse" THEN 502
    ELSE 0

NoStart == [missing |-> FALSE, completed |-> 0, good |-> 0]

(* OAuth2ClientCredentials::new *)
OAuthInit ==
    /\ token = None
    /\ lock = 0
    /\ oauth_clock = 0
    /\ hits = 0
    /\ completed = 0
    /\ good = 0
    /\ o_pc = [c \in Callers |-> "idle"]
    /\ o_now = [c \in Callers |-> 0]
    /\ o_start = [c \in Callers |-> NoStart]
    /\ attached = [c \in Callers |-> 0]
    /\ o_result = [c \in Callers |-> "none"]
    /\ o_status = [c \in Callers |-> 0]
    /\ o_in = [c \in Callers |-> NoHeader]
    /\ o_request = [c \in Callers |->
                       [authorization |-> NoHeader, dispatched |-> 0]]

(* handle, lines 230-233: the request goes to the inner endpoint with the
   Authorization header `authorization` *)
Dispatch(c, authorization) ==
    /\ o_request' = [o_request EXCEPT ![c] =
                        [authorization |-> authorization, dispatched |-> 1]]
    /\ o_start' = [o_start EXCEPT ![c] = [@ EXCEPT !.good = 0]]

(* handle, lines 217-233, and ensure_token, line 128: a caller sends a
   request; one that has an Authorization header goes on to the inner
   endpoint as it is, for any other `now` is read *)
OAuthBegin(c) ==
    /\ o_pc[c] \in {"idle", "done"}
    /\ \E authorization \in OwnHeaders \cup {NoHeader} :
         /\ o_in' = [o_in EXCEPT ![c] = authorization]
         /\ IF ~needs_token(authorization)
            THEN /\ o_pc' = [o_pc EXCEPT ![c] = "done"]
                 /\ o_result' = [o_result EXCEPT ![c] = "own header"]
                 /\ o_request' = [o_request EXCEPT ![c] =
                        [authorization |-> authorization, dispatched |-> 1]]
                 /\ o_start' = [o_start EXCEPT ![c] = NoStart]
                 /\ UNCHANGED o_now
            ELSE /\ o_pc' = [o_pc EXCEPT ![c] = "lock1"]
                 /\ o_result' = [o_result EXCEPT ![c] = "none"]
                 /\ o_now' = [o_now EXCEPT ![c] = oauth_clock]
                 /\ o_start' = [o_start EXCEPT ![c] =
                        [missing |-> still_missing(token, oauth_clock),
                         completed |-> completed, good |-> good]]
                 /\ o_request' = [o_request EXCEPT ![c] =
                        [authorization |-> authorization, dispatched |-> 0]]
    /\ attached' = [attached EXCEPT ![c] = 0]
    /\ o_status' = [o_status EXCEPT ![c] = 0]
    /\ UNCHANGED <<token, lock, oauth_clock, hits, completed, good>>
    /\ UNCHANGED notOAuth

(* ensure_token, lines 129-136: the first lock, check and release *)
OAuthLock1(c) ==
    /\ o_pc[c] = "lock1"
    /\ can_lock(lock)
    /\ IF ~still_missing(token, o_now[c])
       THEN /\ attached' = [attached EXCEPT ![c] = token.v.access_token]
            /\ o_result' = [o_result EXCEPT ![c] = "token"]
            /\ o_pc' = [o_pc EXCEPT ![c] = "done"]
            /\ o_now' = [o_now EXCEPT ![c] = 0]
            /\ Dispatch(c, Bearer(token.v.access_token))
       ELSE /\ o_pc' = [o_pc EXCEPT ![c] = "lock2"]
            /\ UNCHANGED <<attached, o_result, o_now, o_request, o_start>>
    /\ UNCHANGED <<token, lock, oauth_clock, hits, completed, good, o_status,
                   o_in>>
    /\ UNCHANGED notOAuth

(* ensure_token, lines 139-146: the second lock and check; the token
   endpoint is sent a request while the lock is held *)
OAuthLock2(c) ==
    /\ o_pc[c] = "lock2"
    /\ can_lock(lock)
    /\ IF ~still_missing(token, o_now[c])
       THEN /\ attached' = [attached EXCEPT ![c] = token.v.access_token]
            /\ o_result' = [o_result EXCEPT ![c] = "token"]
            /\ o_pc' = [o_pc EXCEPT ![c] = "done"]
            /\ o_now' = [o_now EXCEPT ![c] = 0]
            /\ Dispatch(c, Bearer(token.v.access_token))
            /\ UNCHANGED <<lock, hits>>
       ELSE /\ hits < MaxHits
            /\ hits' = hits + 1
            /\ lock' = c
            /\ o_pc' = [o_pc EXCEPT ![c] = "fetch"]
            /\ UNCHANGED <<attached, o_result, o_now, o_request, o_start>>
    /\ UNCHANGED <<token, oauth_clock, completed, good, o_status, o_in>>
    /\ UNCHANGED notOAuth

(* ensure_token, lines 146-149, fetch_token, lines 163-192, and handle,
   lines 221-233: the token endpoint's answer; the token is stored, the lock
   released and the request sent on with the token, or the error returned
   and the lock released *)
OAuthFetched(c) ==
    /\ o_pc[c] = "fetch"
    /\ completed' = completed + 1
    /\ lock' = 0
    /\ o_pc' = [o_pc EXCEPT ![c] = "done"]
    /\ o_now' = [o_now EXCEPT ![c] = 0]
    /\ \E answer \in TokenAnswers :
         /\ IF answer.ok
            THEN LET fetched == TokenInfo(hits, answer.resp, oauth_clock)
                 IN  /\ token' = Some(fetched)
                     /\ attached' =
                          [attached EXCEPT ![c] = fetched.access_token]
                     /\ o_result' = [o_result EXCEPT ![c] = "token"]
                     /\ good' = IF fetched.expires_at > oauth_clock
                                THEN good + 1 ELSE good
                     /\ Dispatch(c, Bearer(fetched.access_token))
                     /\ UNCHANGED o_status
            ELSE /\ o_result' = [o_result EXCEPT ![c] = answer.err]
                 /\ o_status' = [o_status EXCEPT ![c] =
                        IF answer.err = "Upstream" THEN answer.status
                        ELSE 0]
                 /\ o_start' = [o_start EXCEPT ![c] = NoStart]
                 /\ UNCHANGED <<token, attached, good, o_request>>
    /\ UNCHANGED <<oauth_clock, hits, o_in>>
    /\ UNCHANGED notOAuth

(* time passes *)
OAuthTick ==
    /\ oauth_clock < MaxOAuthTime
    /\ oauth_clock' = oauth_clock + 1
    /\ UNCHANGED <<token, lock, hits, completed, good, o_pc, o_now, o_start,
                   attached, o_result, o_status, o_in, o_request>>
    /\ UNCHANGED notOAuth

OAuthNext ==
    \/ \E c \in Callers :
         OAuthBegin(c) \/ OAuthLock1(c) \/ OAuthLock2(c) \/ OAuthFetched(c)
    \/ OAuthTick

(* a guard that stays locked when the future that owns it is dropped *)
guard_leaked(holder) == holder

(* the drop of the MutexGuard `token_guard`, a local of ensure_token: the
   lock is free again *)
guard_dropped(holder) == 0

CancelInit == waiting_at_drop = {}

(* ensure_token, lines 139-146: the future of a caller is dropped while it
   awaits fetch_token with the lock held; its locals are dropped, the guard
   among them, and line 148 is never reached.  The caller is not seen
   again. *)
OAuthDrop(c) ==
    /\ o_pc[c] = "fetch"
    /\ lock' = guard_dropped(lock)
    /\ o_pc' = [o_pc EXCEPT ![c] = "dropped"]
    /\ o_result' = [o_result EXCEPT ![c] = "dropped"]
    /\ o_now' = [o_now EXCEPT ![c] = 0]
    /\ o_start' = [o_start EXCEPT ![c] = NoStart]
    /\ waiting_at_drop' = {w \in Callers : o_pc[w] \in {"lock1", "lock2"}}
    /\ UNCHANGED <<token, oauth_clock, hits, completed, good, attached,
                   o_status, o_in, o_request>>
    /\ UNCHANGED notCancel

OAuthCancelNext ==
    \/ OAuthNext
    \/ \E c \in Callers : OAuthDrop(c)

(***************************************************************************)
(*                        BearerAuth and BasicAuth                         *)
(***************************************************************************)
(* base64::engine::general_purpose::STANDARD.encode *)
Base64(text) == <<"base64">> \o text

(* BearerAuth::handle: the request the inner endpoint is given, and how
   often it is given it *)
BearerAuth_handle(bearer, authorization) ==
    [authorization |-> IF authorization = NoHeader
                       THEN [scheme |-> "Bearer", cred |-> <<bearer>>]
                       ELSE authorization,
     dispatched |-> 1]

(* BasicAuth::handle *)
BasicAuth_handle(username, password, authorization) ==
    [authorization |->
        IF authorization = NoHeader
        THEN [scheme |-> "Basic",
              cred |-> Base64(IF password.some
                              THEN <<username, ":", password.v>>
                              ELSE <<username, ":">>)]
        ELSE authorization,
     dispatched |-> 1]

BearerTokens == {"secret", "other"}
Usernames == {"user"}
Passwords == {None, Some("pw")}

(***************************************************************************)
(* Claims about OAuth2ClientCredentials                                    *)
(***************************************************************************)
(* a caller that read `now` while the slot held no valid token *)
FoundMissing(c) == o_pc[c] # "idle" /\ o_start[c].missing

(* C9 as stated: for a caller that began while the token was absent or
   expired, the token endpoint is hit once: when the caller itself sends
   the request to the token endpoint, every earlier request to it had been
   answered before the caller began, and the token the caller attaches is
   the one of the first fetch answered after it began. *)
C9_Original ==
    \A c \in Callers :
        FoundMissing(c) =>
            /\ o_pc[c] = "fetch" => hits <= o_start[c].completed + 1
            /\ attached[c] # 0 => attached[c] = o_start[c].completed + 1

(* C9: for a caller that began while the token was absent or expired: once
   a fetch answered after it began has stored a token valid for a positive
   time, the caller sends the token endpoint no request, and the token it
   attaches comes from a fetch answered after it began; it never holds the
   lock of the slot while another caller fetches. *)
C9_SingleFlight ==
    \A c \in Callers :
        FoundMissing(c) =>
            /\ o_pc[c] = "fetch" => (good = o_start[c].good /\ lock = c)
            /\ attached[c] # 0 => attached[c] > o_start[c].completed

(* two callers that both began while the token was absent, one of them
   waiting for the lock while the other fetched, both served by the one
   request the token endpoint was sent *)
C9_Witness ==
    /\ \A c \in Callers :
         FoundMissing(c) /\ o_start[c].completed = 0 /\ attached[c] = 1
    /\ hits = 1 /\ completed = 1 /\ good = 1

(* C10: a stored token with a lifetime of at least one second is held
   valid for less than its lifetime: expires_at lies strictly before the
   time of the fetch plus expires_in. *)
C10_ProactiveExpiry ==
    (token.some /\ token.v.expires_in >= 1)
        => token.v.expires_at < token.v.fetched_at + token.v.expires_in


(* the step is one of caller c, and of no other caller *)
StepOf(c) == \A d \in Callers \ {c} : o_pc'[d] = o_pc[d]

(* C11: a request that carries an Authorization header is given to the
   inner endpoint exactly once with that header unchanged; the call sends
   the token endpoint nothing and leaves the token slot and its lock as
   they were.  BearerAuth and BasicAuth likewise pass such a request on
   once with its header unchanged. *)
C11_ExplicitAuthWins ==
    [][\A c \in Callers :
         (StepOf(c) /\ o_in'[c] # NoHeader /\ o_pc[c] \in {"idle", "done"})
            => /\ o_pc'[c] = "done"
               /\ o_request'[c] =
                    [authorization |-> o_in'[c], dispatched |-> 1]
               /\ token' = token /\ lock' = lock
               /\ hits' = hits /\ completed' = completed
               /\ \A b \in BearerTokens :
                    BearerAuth_handle(b, o_in'[c]) = o_request'[c]
               /\ \A u \in Usernames, p \in Passwords :
                    BasicAuth_handle(u, p, o_in'[c]) = o_request'[c]]_vars

(* a request with its own Bearer header sent on while the slot holds a
   token another caller fetched *)
C11_Witness ==
    /\ token.some
    /\ o_pc[1] = "done"
    /\ o_in[1] = [scheme |-> "Bearer", cred |-> <<"mine">>]
    /\ o_request[1].dispatched = 1
    /\ o_request[1].authorization = o_in[1]
    /\ hits = 1

(* C12: the token endpoint is sent a request only by a call for a request
   without Authorization header, and by it exactly when at its second
   check the slot is empty or `now`, as the call read it, is at or past
   expires_at; a call that finds a token with now < expires_at passes the
   request on once with 'Bearer <that token>' and sends the token endpoint
   nothing. *)
C12_TokenReuse ==
    [][/\ hits' # hits =>
            \E c \in Callers :
                /\ o_pc[c] = "lock2" /\ o_pc'[c] = "fetch"
                /\ o_in[c] = NoHeader
                /\ hits' = hits + 1
                /\ (~token.some \/ o_now[c] >= token.v.expires_at)
       /\ \A c \in Callers :
            (o_pc[c] \in {"lock1", "lock2"} /\ o_pc'[c] # o_pc[c]
             /\ StepOf(c))
                => IF token.some /\ o_now[c] < token.v.expires_at
                   THEN /\ hits' = hits
                        /\ o_pc'[c] = "done"
                        /\ o_request'[c] =
                             [authorization |-> Bearer(token.v.access_token),
                              dispatched |-> 1]
                   ELSE /\ o_pc[c] = "lock1"
                             => (o_pc'[c] = "lock2" /\ hits' = hits)
                        /\ o_pc[c] = "lock2"
                             => (o_pc'[c] = "fetch" /\ hits' = hits + 1)]_vars

(* a later request that found the token of the first fetch still valid and
   went on with it, the token endpoint having been hit once *)
C12_Witness ==
    \E c \in Callers :
        /\ o_pc[c] = "done" /\ o_result[c] = "token"
        /\ ~o_start[c].missing /\ o_start[c].completed = 1
        /\ hits = 1 /\ attached[c] = 1
        /\ o_request[c] = [authorization |-> Bearer(1), dispatched |-> 1]

(* C20: a call whose token fetch fails ends with the error of its kind
   (transport, upstream with the status of the token endpoint, or invalid
   response with 502); the request is not given to the inner endpoint, the
   slot keeps its content, and the call, which sent the token endpoint one
   request, sends it no other. *)
C20_FetchFailure ==
    [][\A c \in Callers :
         /\ (o_pc[c] = "fetch" /\ o_pc'[c] # "fetch"
             /\ o_result'[c] # "token")
              => /\ o_pc'[c] = "done"
                 /\ o_result'[c] \in
                      {"Transport", "Upstream", "InvalidResponse"}
                 /\ o_result'[c] = "Upstream"
                      => /\ o_status'[c] \in {401, 500}
                         /\ OAuth2Error_status("Upstream", o_status'[c])
                              = o_status'[c]
                 /\ o_result'[c] = "InvalidResponse"
                      => OAuth2Error_status("InvalidResponse", o_status'[c])
                          = 502
                 /\ o_request'[c].dispatched = 0
                 /\ token' = token
                 /\ hits' = hits
         /\ o_pc'[c] = "fetch" => o_pc[c] \in {"lock2", "fetch"}
         /\ o_pc'[c] = "lock2" => o_pc[c] \in {"lock1", "lock2"}
         /\ o_pc'[c] = "lock1" => o_pc[c] \in {"idle", "done", "lock1"}
         /\ o_pc[c] = "fetch" => hits' = hits]_vars

(* a call that ended with the upstream error 401 while the slot kept the
   token of an earlier fetch *)
C20_Witness ==
    \E c \in Callers :
        /\ o_pc[c] = "done" /\ o_result[c] = "Upstream"
        /\ o_status[c] = 401
        /\ o_request[c].dispatched = 0
        /\ token.some /\ token.v.access_token = 1
        /\ hits = 2


(***************************************************************************)
(*                               Timeout                                   *)
(***************************************************************************)
GATEWAY_TIMEOUT == 504
INTERNAL_SERVER_ERROR == 500

(* the variants of the unified Error *)
ErrorVariants ==
    {"Http", "Transport", "Tls", "Timeout", "TooManyRedirects",
     "InvalidRedirectLocation", "InvalidUri", "InvalidRequest", "BodyParse",
     "Cookie", "OAuth2", "Download", "WebSocket", "Io", "Other"}

(* Error::kind *)
Error_kind(variant) ==
    IF variant \in {"TooManyRedirects", "InvalidRedirectLocation"}
    THEN "Redirect"
    ELSE IF variant \in {"InvalidUri", "InvalidRequest"} THEN "Request"
    ELSE variant

(* Error::is_timeout *)
is_timeout(variant) == variant = "Timeout"

(* Error::status with the timeout left to the catch-all arm *)
Error_status_catch_all(variant, status) ==
    IF variant = "Http" THEN status ELSE INTERNAL_SERVER_ERROR

(* <Error as HttpError>::status; `status` is the status an Http error
   carries (of the variants that carry one the model has Http alone) *)
Error_status(variant, status) ==
    IF variant = "Timeout" THEN GATEWAY_TIMEOUT
    ELSE IF variant = "Http" THEN status
    ELSE INTERNAL_SERVER_ERROR

(* <TimeoutError as HttpError>::status *)
TimeoutError_status == Some(GATEWAY_TIMEOUT)

(* From<TimeoutError> for Error *)
From_TimeoutError == "Timeout"

(* the errors of the inner endpoint: variants of Error, with the status an
   Http error carries *)
InnerErrors ==
    {[variant |-> "Transport", status |-> 0],
     [variant |-> "Http", status |-> 503]}
TimeoutStatuses == {200, 500}
TimeoutAnswers ==
    {Ok(st) : st \in TimeoutStatuses} \cup {Err(e) : e \in InnerErrors}

(* select with the timer polled before the response *)
select_timer_first(response_ready, timer_ready) ==
    IF timer_ready THEN "Right"
    ELSE IF response_ready THEN "Left"
    ELSE "Pending"

(* futures_util::future::select(response_future, timeout_future): one poll;
   the first future is polled first *)
select(response_ready, timer_ready) ==
    IF response_ready THEN "Left"
    ELSE IF timer_ready THEN "Right"
    ELSE "Pending"

(* the Result that handle makes of the inner endpoint's answer *)
from_inner(answer) ==
    IF answer.ok THEN answer ELSE Err([kind |-> "Endpoint", e |-> answer.err])

TimeoutElapsed == Err([kind |-> "Middleware", e |-> "TimeoutError"])

NoStatus == [own |-> None, unified |-> 0]

(* the status of the error handle returns *)
status_of(result) ==
    IF result.ok THEN NoStatus
    ELSE IF result.err.kind = "Middleware"
    THEN [own |-> TimeoutError_status,
          unified |-> Error_status(From_TimeoutError, 0)]
    ELSE [own |-> Some(Error_status(result.err.e.variant,
                                    result.err.e.status)),
          unified |-> Error_status(result.err.e.variant,
                                   result.err.e.status)]

TimeoutInit ==
    /\ tm_pc = "idle"
    /\ duration = 0
    /\ tm_clock = 0
    /\ timer_when = 0
    /\ response_future = "none"
    /\ inner_answer = None
    /\ inner_polls = 0
    /\ idle_polls = 0
    /\ tm_first = ""
    /\ tm_result = None
    /\ tm_status = NoStatus

(* Timeout::new *)
TimeoutNew ==
    /\ tm_pc = "idle"
    /\ \E d \in 0..MaxDuration : duration' = d
    /\ UNCHANGED <<tm_pc, tm_clock, timer_when, response_future, inner_answer,
                   inner_polls, idle_polls, tm_first, tm_result, tm_status>>
    /\ UNCHANGED notTimeout

(* Timeout::handle, lines 65-75, up to the first return of the select: the
   two futures are made and polled once; the inner endpoint may answer at
   its first poll *)
TimeoutHandle ==
    /\ tm_pc \in {"idle", "done"}
    /\ timer_when' = tm_clock + duration
    /\ inner_polls' = 1
    /\ \E ready \in {None} \cup {Some(a) : a \in TimeoutAnswers} :
         /\ tm_first' = IF ready.some THEN "inner"
                        ELSE IF duration = 0 THEN "timer"
                        ELSE ""
         /\ LET outcome == select(ready.some, duration = 0)
            IN  IF outcome = "Left"
                THEN /\ tm_result' = Some(from_inner(ready.v))
                     /\ tm_status' = status_of(from_inner(ready.v))
                     /\ response_future' = "returned"
                     /\ inner_answer' = ready
                     /\ tm_pc' = "done"
                ELSE IF outcome = "Right"
                THEN /\ tm_result' = Some(TimeoutElapsed)
                     /\ tm_status' = status_of(TimeoutElapsed)
                     /\ response_future' = "dropped"
                     /\ inner_answer' = None
                     /\ tm_pc' = "done"
                ELSE /\ tm_result' = None
                     /\ tm_status' = NoStatus
                     /\ response_future' = "pending"
                     /\ inner_answer' = None
                     /\ tm_pc' = "pending"
    /\ idle_polls' = 0
    /\ UNCHANGED <<duration, tm_clock>>
    /\ UNCHANGED notTimeout

(* the inner endpoint's work is done: the next poll of response_future
   completes it *)
InnerReady ==
    /\ tm_pc = "pending"
    /\ response_future = "pending"
    /\ \E answer \in TimeoutAnswers : inner_answer' = Some(answer)
    /\ response_future' = "ready"
    /\ tm_first' = IF tm_first = "" THEN "inner" ELSE tm_first
    /\ UNCHANGED <<tm_pc, duration, tm_clock, timer_when, inner_polls,
                   idle_polls, tm_result, tm_status>>
    /\ UNCHANGED notTimeout

(* Timeout::handle, lines 72-75: the task is polled again *)
TimeoutPoll ==
    /\ tm_pc = "pending"
    /\ LET outcome == select(response_future = "ready", tm_clock >= timer_when)
       IN  /\ inner_polls' = inner_polls + 1
           /\ IF outcome = "Left"
              THEN /\ tm_result' = Some(from_inner(inner_answer.v))
                   /\ tm_status' = status_of(from_inner(inner_answer.v))
                   /\ response_future' = "returned"
                   /\ tm_pc' = "done"
                   /\ idle_polls' = 0
              ELSE IF outcome = "Right"
              THEN /\ tm_result' = Some(TimeoutElapsed)
                   /\ tm_status' = status_of(TimeoutElapsed)
                   /\ response_future' = "dropped"
                   /\ tm_pc' = "done"
                   /\ idle_polls' = 0
              ELSE /\ idle_polls < MaxPolls
                   /\ idle_polls' = idle_polls + 1
                   /\ UNCHANGED <<tm_result, tm_status, response_future, tm_pc>>
    /\ UNCHANGED <<duration, tm_clock, timer_when, inner_answer, tm_first>>
    /\ UNCHANGED notTimeout

(* time passes *)
TimeoutTick ==
    /\ tm_clock < MaxTimeoutTime
    /\ tm_clock' = tm_clock + 1
    /\ tm_first' = IF tm_pc = "pending" /\ tm_first = ""
                      /\ tm_clock + 1 >= timer_when
                   THEN "timer" ELSE tm_first
    /\ UNCHANGED <<tm_pc, duration, timer_when, response_future, inner_answer,
                   inner_polls, idle_polls, tm_result, tm_status>>
    /\ UNCHANGED notTimeout

TimeoutNext ==
    TimeoutNew \/ TimeoutHandle \/ InnerReady \/ TimeoutPoll \/ TimeoutTick


(***************************************************************************)
(* Claims about Timeout                                                    *)
(***************************************************************************)
(* C14 as stated: a call ends with the inner endpoint's result when the
   inner endpoint completed its work before the deadline of the timer, and
   with the timeout error, the inner call dropped, when the deadline came
   first. *)
C14_Original ==
    tm_pc = "done"
        => /\ tm_first = "inner"
                => /\ response_future = "returned"
                   /\ tm_result = Some(from_inner(inner_answer.v))
           /\ tm_first = "timer"
                => /\ response_future = "dropped"
                   /\ tm_result = Some(TimeoutElapsed)

(* C14 amended: a call has one outcome, which no later step changes.  At
   the poll that ends the call the inner call is asked first: when it has
   completed, its result (response or inner error) is returned, also when
   the deadline of the timer passed before it completed; the timeout error,
   which carries no response, is returned only when at that poll the
   deadline has passed and the inner call has not completed, and the inner
   call is then dropped and never polled again. *)
C14_Race ==
    /\ [](/\ tm_pc = "done" <=> tm_result.some
          /\ tm_pc = "done"
               => \/ /\ response_future = "returned"
                     /\ inner_answer.some
                     /\ tm_result.v = from_inner(inner_answer.v)
                  \/ /\ response_future = "dropped"
                     /\ ~inner_answer.some
                     /\ tm_result.v = TimeoutElapsed
                     /\ ~tm_result.v.ok
                     /\ tm_clock >= timer_when)
    /\ [][/\ (tm_pc = "pending" /\ tm_pc' = "done")
               => IF response_future = "ready"
                  THEN /\ tm_result' = Some(from_inner(inner_answer.v))
                       /\ response_future' = "returned"
                  ELSE /\ tm_clock >= timer_when
                       /\ tm_result' = Some(TimeoutElapsed)
                       /\ response_future' = "dropped"
          /\ tm_pc = "done"
               => \/ UNCHANGED <<tm_pc, tm_result, response_future,
                                 inner_polls, inner_answer>>
                  \/ (timer_when' = tm_clock + duration
                      /\ inner_polls' = 1)]_vars

(* a call whose deadline passed while the inner call was at work and that
   returned the inner endpoint's response all the same *)
C14_Witness ==
    /\ tm_pc = "done"
    /\ tm_first = "timer"
    /\ tm_clock >= timer_when
    /\ duration = 1
    /\ response_future = "returned"
    /\ tm_result = Some(Ok(200))

(* C15: the error of a call that timed out is the TimeoutError, of a kind
   no other error has: its own status() is 504 Gateway Timeout, it converts
   into Error::Timeout, the one variant of kind Timeout and the one
   is_timeout accepts, and the status of that is 504 too. *)
C15_TimeoutIs504 ==
    (tm_pc = "done" /\ response_future = "dropped")
        => /\ tm_result.v = Err([kind |-> "Middleware", e |-> "TimeoutError"])
           /\ tm_status.own = Some(504)
           /\ tm_status.unified = 504
           /\ From_TimeoutError \in ErrorVariants
           /\ is_timeout(From_TimeoutError)
           /\ Error_kind(From_TimeoutError) = "Timeout"
           /\ \A v \in ErrorVariants \ {From_TimeoutError} :
                ~is_timeout(v) /\ Error_kind(v) # "Timeout"

(* a call with a duration that timed out after one idle poll *)
C15_Witness ==
    /\ tm_pc = "done"
    /\ response_future = "dropped"
    /\ duration = 2
    /\ inner_polls = 3
    /\ tm_status = [own |-> Some(504), unified |-> 504]

(***************************************************************************)
(*                           download_to_path                              *)
(***************************************************************************)
PARTIAL_CONTENT == 206
OK == 200

DownloadBytes == {1, 2}
(* the sequences of at most n bytes *)
SeqsUpTo(n) == UNION {[1..k -> DownloadBytes] : k \in 0..n}
Payloads == SeqsUpTo(MaxPayload) \ {<<>>}
(* a file left by something else than a download of the payload *)
Junk == <<9>>
(* the body of a response that is an error *)
ErrorBody == <<4, 0>>

IsPrefix(p, q) == Len(p) <= Len(q) /\ SubSeq(q, 1, Len(p)) = p
Drop(q, n) == SubSeq(q, n + 1, Len(q))

(* parse_range: the start of the Range header, 0 without one *)
parse_range(range) == IF range.some THEN range.v ELSE 0

(* the server: the status and the body it answers a GET with, `range` being
   the start of the Range header, if the request has one; a server that is
   "gone" answers 404 *)
respond_download(kind, held, range) ==
    IF kind = "gone"
    THEN [status |-> 404, body |-> ErrorBody]
    ELSE LET honor_range == kind = "range"
             start == Min(IF honor_range THEN parse_range(range) ELSE 0,
                          Len(held))
         IN  [status |-> IF start > 0 /\ honor_range
                         THEN PARTIAL_CONTENT ELSE OK,
              body |-> Drop(held, start)]

(* status.is_success() *)
is_success(st) == 200 <= st /\ st <= 299

(* download_to_path: the length the call resumes from *)
existing_len(opts_resume, bytes) == IF opts_resume THEN Len(bytes) ELSE 0

(* the file reopened for appending whatever the status is *)
resumes_always(len, st) == len > 0

(* download_to_path, lines 128 / client.rs line 233: whether the file is
   kept and written from its old end on *)
resumes(len, st) == len > 0 /\ st = PARTIAL_CONTENT

(* write_all at the cursor *)
write_at(bytes, pos, chunk) ==
    SubSeq(bytes, 1, pos) \o chunk
        \o Drop(bytes, Min(Len(bytes), pos + Len(chunk)))

DownloadInit ==
    /\ dl_pc = "idle"
    /\ checks_status = FALSE
    /\ payload = <<1>>
    /\ server = "plain"
    /\ resume_existing = TRUE
    /\ file = <<>>
    /\ file_before = <<>>
    /\ dl_range = None
    /\ dl_status = 0
    /\ dl_body = <<>>
    /\ dl_pos = 0
    /\ resumed_from = 0
    /\ bytes_written = 0
    /\ dl_result = ""

(* the surroundings of a call: the server and what it holds, the file, the
   options, and which of the two functions is called *)
DownloadSetup ==
    /\ dl_pc = "idle"
    /\ dl_pc' = "ready"
    /\ \E held \in Payloads :
         /\ payload' = held
         /\ \E bytes \in {p \in SeqsUpTo(MaxPayload) : IsPrefix(p, held)}
                          \cup {Junk} :
              file' = bytes /\ file_before' = bytes
    /\ server' \in {"range", "plain", "gone"}
    /\ resume_existing' \in BOOLEAN
    /\ checks_status' \in BOOLEAN
    /\ dl_range' = None
    /\ dl_status' = 0
    /\ dl_body' = <<>>
    /\ dl_pos' = 0
    /\ resumed_from' = 0
    /\ bytes_written' = 0
    /\ dl_result' = ""
    /\ UNCHANGED notDownload

(* the call ends with `result` *)
DownloadReturn(result) ==
    /\ dl_pc' = "done"
    /\ dl_result' = result

(* download_to_path, lines 103-152 (download_to_path_with, lines 210-255):
   from the metadata of the file to the opening of the file *)
DownloadRequest ==
    /\ dl_pc = "ready"
    /\ LET len == existing_len(resume_existing, file)
           range == IF len > 0 THEN Some(len) ELSE None
       IN  /\ dl_range' = range
           /\ \/ /\ DownloadReturn("Remote")
                 /\ UNCHANGED <<file, dl_status, dl_body, dl_pos,
                                resumed_from>>
              \/ LET answer == respond_download(server, payload, range)
                 IN  /\ dl_status' = answer.status
                     /\ IF /\ checks_status
                           /\ ~(is_success(answer.status)
                                \/ answer.status = PARTIAL_CONTENT)
                        THEN /\ DownloadReturn("Upstream")
                             /\ UNCHANGED <<file, dl_body, dl_pos,
                                            resumed_from>>
                        ELSE \/ /\ DownloadReturn("Io")
                                /\ UNCHANGED <<file, dl_body, dl_pos,
                                               resumed_from>>
                             \/ /\ dl_pc' = "streaming"
                                /\ dl_body' = answer.body
                                /\ UNCHANGED dl_result
                                /\ IF resumes(len, answer.status)
                                   THEN /\ resumed_from' = len
                                        /\ dl_pos' = len
                                        /\ UNCHANGED file
                                   ELSE /\ resumed_from' = 0
                                        /\ dl_pos' = 0
                                        /\ file' = <<>>
    /\ UNCHANGED <<checks_status, payload, server, resume_existing,
                   file_before, bytes_written>>
    /\ UNCHANGED notDownload

(* download_to_path, lines 155-159: one chunk of the body is written, or
   reading it fails *)
DownloadChunk ==
    /\ dl_pc = "streaming"
    /\ dl_body # <<>>
    /\ \/ /\ DownloadReturn("Body")
          /\ UNCHANGED <<file, dl_body, dl_pos, bytes_written>>
       \/ /\ \E n \in 1..Min(MaxChunk, Len(dl_body)) :
               LET chunk == SubSeq(dl_body, 1, n)
               IN  /\ file' = write_at(file, dl_pos, chunk)
                   /\ dl_pos' = dl_pos + n
                   /\ bytes_written' = bytes_written + n
                   /\ dl_body' = Drop(dl_body, n)
          /\ UNCHANGED <<dl_pc, dl_result>>
    /\ UNCHANGED <<checks_status, payload, server, resume_existing,
                   file_before, dl_range, dl_status, resumed_from>>
    /\ UNCHANGED notDownload

(* download_to_path, lines 155-167: the body has ended; flush and report *)
DownloadFinish ==
    /\ dl_pc = "streaming"
    /\ dl_body = <<>>
    /\ DownloadReturn("ok")
    /\ UNCHANGED <<checks_status, payload, server, resume_existing, file,
                   file_before, dl_range, dl_status, dl_body, dl_pos,
                   resumed_from, bytes_written>>
    /\ UNCHANGED notDownload

DownloadNext ==
    DownloadSetup \/ DownloadRequest \/ DownloadChunk \/ DownloadFinish

(* C22: when a call succeeds, the file held a non-empty prefix of the
   payload before it, and the server answered 206 (it honoured the Range
   header) or 200 (it did not), the file is the payload; resumed_from is
   the old length of the file after 206 and 0 after 200, and resumed_from +
   bytes_written is the length of the payload. *)
C22_DownloadResume ==
    (/\ dl_pc = "done" /\ dl_result = "ok"
     /\ file_before # <<>> /\ IsPrefix(file_before, payload)
     /\ dl_status \in {PARTIAL_CONTENT, OK})
        => /\ file = payload
           /\ dl_status = PARTIAL_CONTENT => resumed_from = Len(file_before)
           /\ dl_status = OK => resumed_from = 0
           /\ resumed_from + bytes_written = Len(payload)

(* a file of one byte completed by the two bytes a 206 brought, in two
   chunks *)
C22_Witness ==
    /\ dl_pc = "done" /\ dl_result = "ok"
    /\ Len(file_before) = 1 /\ Len(payload) = 3
    /\ dl_status = PARTIAL_CONTENT
    /\ dl_range = Some(1)
    /\ resumed_from = 1 /\ bytes_written = 2
    /\ file = payload

(***************************************************************************)
(* Claim about the must_revalidate flag of an entry                        *)
(***************************************************************************)
(* C40: while the entry of a key is marked must_revalidate, the handling of
   a GET for the key gives a request to the inner endpoint, and the entry a
   304 leaves in the table is marked, whatever the directives of the 304. *)
C40_FlagSurvives304 ==
    [][\A u \in Uris :
         (entries[u].some /\ entries[u].v.must_revalidate)
           => /\ (/\ cache_in.some /\ ~cache_out.some /\ cache_out'.some
                  /\ cache_in.v.method = "GET" /\ cache_in.v.uri = u)
                    => inner_req'.some
              /\ (/\ entries'[u].some
                  /\ answered'.some /\ answered'.v.ok
                  /\ answered'.v.status = 304)
                    => entries'[u].v.must_revalidate]_vars

(* a GET without no-cache was answered 304 with a max-age under which the
   entry is fresh, and the entry is still marked *)
C40_Witness ==
    /\ cache_in.some /\ cache_out.some /\ revalidated /\ inner_req.some
    /\ ~from_header_map(cache_in.v.cache_control).no_cache
    /\ answered.some /\ answered.v.ok /\ answered.v.status = 304
    /\ answered_meta.some /\ answered_meta.v.cache_control.max_age.some
    /\ ~answered_meta.v.cache_control.no_cache
    /\ ~answered_meta.v.cache_control.must_revalidate
    /\ \E u \in Uris :
         /\ cache_in.v.uri = u /\ entries[u].some
         /\ entries[u].v.must_revalidate
         /\ is_fresh(entries[u].v, clock)
         /\ cache_out.v.body = entries[u].v.body

(***************************************************************************)
(* Claims about the lock and the expiry of OAuth2ClientCredentials         *)
(***************************************************************************)
(* C35: at most one caller has a request at the token endpoint, and it is
   the caller that holds the lock; the slot changes only in the step in which
   the holder of the lock gets its answer. *)
C35_FetchExclusion ==
    /\ [](/\ Cardinality({c \in Callers : o_pc[c] = "fetch"}) <= 1
          /\ \A c \in Callers : o_pc[c] = "fetch" <=> lock = c)
    /\ [][token' # token
            => /\ lock \in Callers
               /\ o_pc[lock] = "fetch" /\ o_pc'[lock] = "done"
               /\ lock' = 0]_vars

(* after a fetch that failed, one caller fetches while another waits for
   the lock to fetch in its turn *)
C35_Witness ==
    /\ completed >= 1 /\ token = None
    /\ \E c \in Callers :
         /\ o_pc[c] = "fetch" /\ lock = c
         /\ \E d \in Callers \ {c} :
              o_pc[d] = "lock2" /\ o_result[c] = "none"

(* a caller stands at the second lock, which is free, before a fetch beyond
   the fetches the model counts *)
BeyondFetches(c) ==
    /\ o_pc[c] = "lock2" /\ lock = 0 /\ hits = MaxHits
    /\ still_missing(token, o_now[c])

(* C37: the drop of the caller that holds the lock frees the lock and
   leaves the slot as it was, the slot holds nothing or a whole TokenInfo,
   and every caller that waits for the lock gets it and ends its check or
   its fetch. *)
C37_CancellationSafety ==
    /\ [][\A c \in Callers :
            (o_pc[c] = "fetch" /\ o_pc'[c] = "dropped")
              => lock = c /\ lock' = 0 /\ token' = token]_vars
    /\ [](token.some
            => DOMAIN token.v = {"access_token", "expires_at", "fetched_at",
                                 "expires_in"})
    /\ \A w \in Callers :
         (o_pc[w] \in {"lock1", "lock2"})
           ~> (o_pc[w] \in {"done", "dropped"} \/ BeyondFetches(w))

(* a caller that waited for the lock when its holder was dropped holds the
   lock and fetches; no fetch has been answered *)
C37_Witness ==
    \E w \in waiting_at_drop :
      /\ o_pc[w] = "fetch" /\ lock = w
      /\ completed = 0 /\ token = None
      /\ \E c \in Callers : o_pc[c] = "dropped"

(* the lifetimes and the safety windows the computation is tried with *)
Lifetimes == 0..(2 * SAFETY_WINDOW + 2) \cup {DEFAULT_EXPIRES_IN}
Windows == {0, 1, SAFETY_WINDOW, DEFAULT_EXPIRES_IN}

(* the period of every lifetime and window, and of an answer without
   expires_in *)
PeriodOfEveryLifetime ==
    /\ validity(None, SAFETY_WINDOW)
         = DEFAULT_EXPIRES_IN - Min(SAFETY_WINDOW, DEFAULT_EXPIRES_IN \div 2)
    /\ \A L \in Lifetimes, W \in Windows :
         LET period == validity(Some(L), W)
         IN  /\ period = L - Min(W, L \div 2)
             /\ period >= 0
             /\ period <= L
             /\ 2 * period >= L

(* C36: a token is held valid for L - min(W, L/2) seconds, L being the
   expires_in of the answer or 3600 without one and L/2 the whole seconds of
   the half; that is not negative, at most L and at least L/2.  It holds of
   the token in the slot and of the computation for every L and W. *)
C36_ExpiryComputation ==
    /\ token.some
         => token.v.expires_at - token.v.fetched_at
              = token.v.expires_in
                  - Min(SAFETY_WINDOW, token.v.expires_in \div 2)
    /\ PeriodOfEveryLifetime

(* the slot holds a token of one second, from which the half of the
   lifetime, 0 whole seconds, was taken and not the window of 30 *)
C36_Witness ==
    /\ token.some
    /\ token.v.expires_in = 1
    /\ token.v.expires_at = token.v.fetched_at + 1

(***************************************************************************)
(* Claims about the backoff of Retry                                       *)
(***************************************************************************)
(* C33: no call panics; the sleep after the failed attempt k is
   min(min_delay * 2^(k-1), max_delay), which is at most max_delay, and no
   sleep of a call is shorter than the sleep before it.  (Beyond the
   exponent 16 the product is above every max_delay unless min_delay is 0.) *)
C33_Backoff ==
    /\ [](retry_pc # "panicked")
    /\ [](retry_pc = "sleep"
            => /\ delay = Min(min_delay * 2^Min(attempts - 1, 16), max_delay)
               /\ delay <= max_delay)
    /\ [][(retry_pc' = "sleep" /\ sleeps' = sleeps + 1 /\ sleeps >= 1)
            => delay' >= delay]_vars

(***************************************************************************)
(*                  Two Retry chains on one executor                       *)
(***************************************************************************)
Chains == {1, 2}

(* a sleep that keeps the thread until it is over *)
blocking_sleep(k) == k

(* Retry::respond, line 113: async_io::Timer::after(delay).await returns
   Pending and so gives the thread back: who holds the thread while chain k
   sleeps *)
timer_await(k) == 0

ChainsInit ==
    /\ ch_pc = [k \in Chains |-> "idle"]
    /\ ch_attempts = [k \in Chains |-> 0]
    /\ ch_issued = [k \in Chains |-> 0]
    /\ ch_overlap = [k \in Chains |-> 0]
    /\ thread = 0

(* Retry::respond, lines 95-97: a chain begins *)
ChainStart(k) ==
    /\ ch_pc[k] = "idle"
    /\ thread = 0
    /\ ch_pc' = [ch_pc EXCEPT ![k] = "loop"]
    /\ UNCHANGED <<ch_attempts, ch_issued, ch_overlap, thread>>
    /\ UNCHANGED notChains

(* Retry::respond, lines 98-113: the executor polls chain k, which makes one
   attempt and returns or begins to sleep *)
ChainAttempt(k) ==
    /\ ch_pc[k] = "loop"
    /\ thread = 0
    /\ ch_issued' = [ch_issued EXCEPT ![k] = @ + 1]
    /\ ch_overlap' =
         [ch_overlap EXCEPT
            ![k] = IF \E o \in Chains \ {k} : ch_pc[o] = "sleep"
                   THEN @ + 1 ELSE @]
    /\ \E ok \in BOOLEAN :
         IF ok
         THEN /\ ch_pc' = [ch_pc EXCEPT ![k] = "done"]
              /\ UNCHANGED <<ch_attempts, thread>>
         ELSE /\ ch_attempts' = [ch_attempts EXCEPT ![k] = @ + 1]
              /\ IF ch_attempts[k] + 1 > MaxChainRetries
                 THEN /\ ch_pc' = [ch_pc EXCEPT ![k] = "done"]
                      /\ UNCHANGED thread
                 ELSE /\ ch_pc' = [ch_pc EXCEPT ![k] = "sleep"]
                      /\ thread' = timer_await(k)
    /\ UNCHANGED notChains

(* Retry::respond, line 113: the timer of chain k fires *)
ChainWake(k) ==
    /\ ch_pc[k] = "sleep"
    /\ ch_pc' = [ch_pc EXCEPT ![k] = "loop"]
    /\ thread' = IF thread = k THEN 0 ELSE thread
    /\ UNCHANGED <<ch_attempts, ch_issued, ch_overlap>>
    /\ UNCHANGED notChains

ChainsNext ==
    \E k \in Chains : ChainStart(k) \/ ChainAttempt(k) \/ ChainWake(k)

(* C34: a chain that sleeps between two attempts does not hold the thread,
   and chain 2, once begun, completes also when the timer of chain 1 never
   fires. *)
C34_SleepSuspendsOwnChain ==
    /\ [](\A k \in Chains : ch_pc[k] = "sleep" => thread # k)
    /\ (ch_pc[2] = "loop") ~> (ch_pc[2] = "done")

(* chain 2 has completed after giving its inner endpoint three requests
   while chain 1 was asleep, and chain 1 is asleep still *)
C34_Witness ==
    /\ ch_pc[1] = "sleep"
    /\ ch_pc[2] = "done"
    /\ ch_issued[2] = 3 /\ ch_overlap[2] = 3

(***************************************************************************)
(*                    The middlewares put together                         *)
(***************************************************************************)
(* <FollowRedirectError as HttpError>::status; `inner_status` is the status
   of the error a RemoteError or a RequestBuildError holds *)
FollowRedirectError_status(kind, inner_status) ==
    IF kind \in {"RemoteError", "RequestBuildError"} THEN inner_status
    ELSE INTERNAL_SERVER_ERROR

(* C32: a call that ends with an invalid redirect location has an error
   whose status is 400, as a FollowRedirectError and converted into the
   unified Error alike. *)
C32_InvalidLocationIs400 ==
    (/\ red_pc = "done" /\ red_result.some /\ ~red_result.v.ok
     /\ into_Error(red_result.v.err) = "InvalidRedirectLocation")
        => /\ FollowRedirectError_status(red_result.v.err,
                                         INTERNAL_SERVER_ERROR) = 400
           /\ Error_status(into_Error(red_result.v.err), 0) = 400

(* FollowRedirect::respond, lines 104-123, as the inner endpoint of a Cache:
   what it returns for the answer of the backend to the first request.  The
   responses the Cache is given have no Location header, so a response with
   a redirection status ends the call with MissingLocationHeader. *)
FollowRedirect_respond(result) ==
    IF ~result.ok THEN Err(FailureKind("inner"))
    ELSE IF ~is_redirection(result.resp.status) THEN result
    ELSE Err(FailureKind(redirect_failure(0, CHOOSE u \in Urls : TRUE,
                                          NoLocation)))

(* C38: when the backend answers the conditional request of a Cache over a
   FollowRedirect with 304, the Cache returns the stored body and keeps the
   entry, as it does with the backend as its inner endpoint. *)
C38_NotModifiedThroughRedirect ==
    (cache_in.some /\ ~cache_out.some)
      => \A r \in {x \in Responses : x.status = 304},
            leaves \in Leaves(cache_in.v) :
           LET key == cache_key(cache_in.v)
               alone == handle(entries, cache_in.v, clock, Ok(r), leaves)
               composed == handle(entries, cache_in.v, clock,
                                  FollowRedirect_respond(Ok(r)), leaves)
           IN  alone.reval
                 => /\ composed.result.ok
                    /\ composed.result.resp.body = entries[key.v].v.body
                    /\ composed.entries[key.v].some

(* request.headers().contains_key(header::AUTHORIZATION), read by the
   handle of the three auth middlewares, of a request FollowRedirect built:
   the header of the original request when the hop has one, no header
   otherwise.  The mark build_request puts on a request under suppress_auth
   (lines 217-219) is no header, and no handle reads it. *)
authorization_of(request, own) ==
    IF "authorization" \in request.headers THEN own ELSE NoHeader

(* C39: a request FollowRedirect built after a redirect changed the host
   reaches the backend without an Authorization header, whichever of
   BearerAuth, BasicAuth and OAuth2ClientCredentials stands between
   FollowRedirect and the backend. *)
C39_NoCredentialsAfterHostChange ==
    (red_req.some /\ red_req.v.suppress_auth)
      => \A own \in OwnHeaders :
           LET authorization == authorization_of(red_req.v, own)
           IN  /\ \A bearer \in BearerTokens :
                    BearerAuth_handle(bearer, authorization).authorization
                      = NoHeader
               /\ \A username \in Usernames, password \in Passwords :
                    BasicAuth_handle(username, password,
                                     authorization).authorization
                      = NoHeader
               /\ ~needs_token(authorization)

(***************************************************************************)
(* Specifications: every middleware from its constructed state, one        *)
(* specification per middleware, and all of them side by side              *)
(***************************************************************************)
Init ==
    /\ CacheInit /\ RedirectInit /\ RetryInit /\ OAuthInit /\ TimeoutInit
    /\ DownloadInit
    /\ ChainsInit
    /\ CancelInit

SpecCache == Init /\ [][CacheNext]_vars

SpecRedirect == Init /\ [][RedirectNext]_vars

SpecRetry == Init /\ [][RetryNext]_vars

SpecOAuth == Init /\ [][OAuthNext]_vars

SpecTimeout == Init /\ [][TimeoutNext]_vars

SpecDownload == Init /\ [][DownloadNext]_vars

(* callers whose futures can be dropped.  The token endpoint answers the
   caller that holds the lock unless that caller is dropped, and a caller
   that finds the lock free again and again gets it: futures_util's Mutex
   wakes a waiter at every unlock and the executor polls what was woken. *)
SpecOAuthCancel ==
    /\ Init /\ [][OAuthCancelNext]_vars
    /\ \A c \in Callers :
         /\ SF_vars(OAuthLock1(c)) /\ SF_vars(OAuthLock2(c))
         /\ WF_vars(OAuthFetched(c))

(* the executor polls chain 2 whenever it can run and the timers of chain 2
   fire; nothing is assumed of the timer of chain 1 *)
SpecChains ==
    /\ Init /\ [][ChainsNext]_vars
    /\ WF_vars(ChainAttempt(2)) /\ WF_vars(ChainWake(2))

Next ==
    \/ CacheNext \/ RedirectNext \/ RetryNext \/ OAuthNext \/ TimeoutNext
    \/ DownloadNext \/ ChainsNext \/ OAuthCancelNext

Spec == Init /\ [][Next]_vars

====
